---- MODULE Spec2Model ----
(***************************************************************************)
(* Model of the HSL ticket optimizer: the cost model engine of             *)
(* PriceService (calculateSingleTicketCost, calculateSeriesTicketCost,     *)
(* calculateSeasonTicketCost, calculateContinuousMonthlyTicketCost,        *)
(* findOptimalOption) and the cached price fetch (fetchTicketPrices over   *)
(* CacheManager).                                                          *)
(*                                                                         *)
(* Money is counted in cents.  Every price the engine receives is a        *)
(* two-decimal amount, so Math.round(x * 100) / 100 of a product of an     *)
(* integer and a price is that product in cents; the one place where a     *)
(* real rounding happens (the 5 % discount) is computed with MathRound.    *)
(* tripsPerWeek is counted in units of 1/TripDen of a trip, so that        *)
(* fractional trip rates (0.5 trips per week) are inputs too.              *)
(***************************************************************************)
EXTENDS Integers, Sequences, FiniteSets, TLC

(***************************************************************************)
(* Bounds of the model.                                                    *)
(***************************************************************************)
TripDen == 2
MaxTrips == 6
MaxTicks == 2
MaxElapse == 3
MaxFaults == 2
MaxWaitSteps == 3
MaxConcurrentTicks == 1

(***************************************************************************)
(* Program constants.                                                      *)
(***************************************************************************)
WEEKS_PER_MONTH_X100 == 433
WEEKS_PER_YEAR == 52
DAYS_PER_WEEK == 7
WASTE_RATIO_DEN == 5
DISCOUNT_PERCENT == 5
CACHE_TTL == 3600000
CACHE_PREFIX == "hsl_cache_"
REQUEST_TIMEOUT == 10000

\* The cost engine: the inputs of a call, the function called, its result.
VARIABLES tripsPerWeek, prices, seriesTicket, op, result

\* The price fetch: localStorage, Date.now(), the fetchTicketPrices calls
\* and the callers that issue them.
VARIABLES store, now, calls, callers

\* One operation taken on its own: the operation invoked with its inputs and
\* what it returned; and the raw requests in flight with their timers.
VARIABLES invocation, returned, inflight

costVars == <<tripsPerWeek, prices, seriesTicket, op, result>>
fetchVars == <<store, now, calls, callers>>
ioVars == <<invocation, returned, inflight>>
vars == <<tripsPerWeek, prices, seriesTicket, op, result, store, now, calls, callers,
          invocation, returned, inflight>>

\* The clock advances in steps of one time-to-live.
ClockStep == CACHE_TTL

Zones == {"11", "12", "99"}

CustomerGroups == {1}

Municipalities == {"helsinki"}

CallIds == {"c1", "c2"}

(***************************************************************************)
(* Arithmetic of the JavaScript Math object on exact rationals num/den     *)
(* (num >= 0, den > 0).                                                    *)
(***************************************************************************)
MathCeil(num, den) == (num + den - 1) \div den

MathRound(num, den) == (2 * num + den) \div (2 * den)

MathMin(a, b) == IF a <= b THEN a ELSE b

MathMax(a, b) == IF a >= b THEN a ELSE b

(***************************************************************************)
(* Input domains.  An optional field of the prices object is a sequence    *)
(* of length 0 (undefined) or 1.                                           *)
(***************************************************************************)
TripsDomain == 0..(MaxTrips * TripDen)

SingleFares == {300, 320}

SeasonFares == {5800, 10770}

ContinuousFares == {<<>>, <<5800>>, <<10770>>}

SeriesTickets10 ==
    { [price |-> 2880, journeys |-> 10, validityDays |-> 30],
      [price |-> 1250, journeys |-> 10, validityDays |-> 14],
      [price |-> 2200, journeys |-> 10, validityDays |-> 14] }

SeriesTickets20 ==
    { [price |-> 5440, journeys |-> 20, validityDays |-> 60] }

\* A valid tier whose validity is shorter than a week.
ShortValidityTickets ==
    { [price |-> 1000, journeys |-> 10, validityDays |-> 3] }

SeriesTickets == SeriesTickets10 \cup SeriesTickets20 \cup ShortValidityTickets

Optional(S) == {<<>>} \cup {<<x>> : x \in S}

PricesDomain ==
    [single : SingleFares,
     series10 : Optional(SeriesTickets10),
     series20 : Optional(SeriesTickets20),
     season : SeasonFares,
     continuousMonthly : ContinuousFares]

NoResult == [none |-> TRUE]

(***************************************************************************)
(* calculateSingleTicketCost(tripsPerWeek, singleTicketPrice)              *)
(***************************************************************************)
TripsPerMonth(n) == MathCeil(n * WEEKS_PER_MONTH_X100, 100 * TripDen)

TripsPerYear(n) == MathCeil(n * WEEKS_PER_YEAR, TripDen)

SingleAnnualCostTimesTwelve(tripsPerYear, monthlyCost, singleTicketPrice) ==
    MathRound(monthlyCost * 12, 1)

SingleAnnualCost(tripsPerYear, monthlyCost, singleTicketPrice) ==
    MathRound(tripsPerYear * singleTicketPrice, 1)

NoTripsCalculationOmitted == "trips/week x 4.33 weeks/month"

NoTripsCalculation == "No trips - no cost"

calculateSingleTicketCost(n, singleTicketPrice) ==
    IF n < 0
    THEN [threw |-> "Trips per week must be greater than or equal to 0"]
    ELSE IF singleTicketPrice <= 0
    THEN [threw |-> "Single ticket price must be greater than 0"]
    ELSE IF n = 0
    THEN [monthlyCost |-> 0, annualCost |-> 0,
          calculation |-> NoTripsCalculation,
          tripsPerMonth |-> 0, totalTickets |-> 0]
    ELSE LET tripsPerMonth == TripsPerMonth(n)
             tripsPerYear == TripsPerYear(n)
             totalTickets == tripsPerMonth
             monthlyCost == MathRound(totalTickets * singleTicketPrice, 1)
         IN [monthlyCost |-> monthlyCost,
             annualCost |-> SingleAnnualCost(tripsPerYear, monthlyCost,
                                             singleTicketPrice),
             calculation |-> "trips/week x 4.33 weeks/month",
             tripsPerMonth |-> tripsPerMonth,
             totalTickets |-> totalTickets]

(***************************************************************************)
(* calculateSeriesTicketCost(tripsPerWeek, seriesTicket)                   *)
(* wasteWarning is a sequence: empty when the result carries no warning.   *)
(***************************************************************************)
EffectiveUsableIgnoringValidity(n, ticket) == MathMax(1, ticket.journeys)

EffectiveUsable(n, ticket) ==
    LET usableJourneysPerPack ==
            MathMin(ticket.journeys,
                    MathCeil(n * ticket.validityDays, DAYS_PER_WEEK * TripDen))
    IN MathMax(1, usableJourneysPerPack)

HasWasteWarningStrict(journeysWasted, totalJourneysCapacity) ==
    IF totalJourneysCapacity = 0
    THEN FALSE
    ELSE WASTE_RATIO_DEN * journeysWasted > totalJourneysCapacity

HasWasteWarning(journeysWasted, totalJourneysCapacity) ==
    IF totalJourneysCapacity = 0
    THEN FALSE
    ELSE WASTE_RATIO_DEN * journeysWasted >= totalJourneysCapacity

calculateSeriesTicketCost(n, ticket) ==
    IF n < 0
    THEN [threw |-> "Trips per week must be greater than or equal to 0"]
    ELSE IF ticket.price <= 0 \/ ticket.journeys <= 0 \/ ticket.validityDays <= 0
    THEN [threw |-> "Invalid series ticket configuration"]
    ELSE LET tripsPerMonth == TripsPerMonth(n)
             tripsPerYear == TripsPerYear(n)
         IN IF tripsPerMonth = 0
            THEN [monthlyCost |-> 0, annualCost |-> 0,
                  calculation |-> "No trips - no cost",
                  ticketsNeeded |-> 0, journeysWasted |-> 0,
                  wasteWarning |-> <<>>]
            ELSE LET effectiveUsable == EffectiveUsable(n, ticket)
                     ticketsNeeded == MathCeil(tripsPerMonth, effectiveUsable)
                     totalJourneysCapacity == ticketsNeeded * ticket.journeys
                     totalUsableJourneys == ticketsNeeded * effectiveUsable
                     journeysWasted ==
                         MathMax(0, totalJourneysCapacity - totalUsableJourneys)
                     annualTicketsNeeded == MathCeil(tripsPerYear, effectiveUsable)
                 IN [monthlyCost |-> MathRound(ticketsNeeded * ticket.price, 1),
                     annualCost |-> MathRound(annualTicketsNeeded * ticket.price, 1),
                     calculation |-> "series with usable per pack",
                     ticketsNeeded |-> ticketsNeeded,
                     journeysWasted |-> journeysWasted,
                     wasteWarning |->
                         IF HasWasteWarning(journeysWasted, totalJourneysCapacity)
                         THEN <<"Significant waste expected (>=20%) due to validity limits.">>
                         ELSE <<>>]

(***************************************************************************)
(* calculateSeasonTicketCost(seasonPrice)                                  *)
(***************************************************************************)
calculateSeasonTicketCost(seasonPrice) ==
    IF seasonPrice <= 0
    THEN [threw |-> "Season ticket price must be greater than 0"]
    ELSE [monthlyCost |-> MathRound(seasonPrice, 1),
          annualCost |-> MathRound(seasonPrice * 12, 1),
          calculation |-> "30-day ticket"]

(***************************************************************************)
(* calculateContinuousMonthlyTicketCost(monthlyPrice,                      *)
(*     continuousMonthlyPrice?, discountRatio = 0.05)                      *)
(***************************************************************************)
calculateContinuousMonthlyTicketCost(monthlyPrice, continuousMonthlyPrice) ==
    IF monthlyPrice <= 0
    THEN [threw |-> "Monthly ticket price must be greater than 0"]
    ELSE LET provided == Len(continuousMonthlyPrice) = 1
                             /\ continuousMonthlyPrice[1] > 0
             effective ==
                 IF provided
                 THEN continuousMonthlyPrice[1]
                 ELSE MathRound(monthlyPrice * (100 - DISCOUNT_PERCENT), 100)
             monthlyCost == MathRound(effective, 1)
         IN [monthlyCost |-> monthlyCost,
             annualCost |-> MathRound(monthlyCost * 12, 1),
             calculation |-> IF provided THEN "Fixed" ELSE "Monthly with discount"]

(***************************************************************************)
(* findOptimalOption(tripsPerWeek, prices)                                 *)
(* options.sort((a, b) => a.cost - b.cost) is a stable sort: an insertion  *)
(* sort that puts an option behind every option of lower or equal cost.    *)
(***************************************************************************)
RECURSIVE InsertOptionDescending(_, _)
InsertOptionDescending(sorted, o) ==
    IF sorted = <<>>
    THEN <<o>>
    ELSE IF Head(sorted).cost - o.cost < 0
         THEN <<o>> \o sorted
         ELSE <<Head(sorted)>> \o InsertOptionDescending(Tail(sorted), o)

RECURSIVE InsertOption(_, _)
InsertOption(sorted, o) ==
    IF sorted = <<>>
    THEN <<o>>
    ELSE IF o.cost - Head(sorted).cost < 0
         THEN <<o>> \o sorted
         ELSE <<Head(sorted)>> \o InsertOption(Tail(sorted), o)

RECURSIVE SortOptions(_)
SortOptions(options) ==
    IF options = <<>>
    THEN <<>>
    ELSE InsertOption(SortOptions(SubSeq(options, 1, Len(options) - 1)),
                      options[Len(options)])

BuildOptionsSeriesFirst(single, season, continuousMonthly, series10, series20) ==
    (IF series10 # <<>>
     THEN << [key |-> "series10", cost |-> series10[1].monthlyCost] >>
     ELSE <<>>)
    \o (IF series20 # <<>>
        THEN << [key |-> "series20", cost |-> series20[1].monthlyCost] >>
        ELSE <<>>)
    \o << [key |-> "single", cost |-> single.monthlyCost],
          [key |-> "season", cost |-> season.monthlyCost],
          [key |-> "continuousMonthly", cost |-> continuousMonthly.monthlyCost] >>

BuildOptionsContinuousFirst(single, season, continuousMonthly, series10, series20) ==
    << [key |-> "single", cost |-> single.monthlyCost],
       [key |-> "continuousMonthly", cost |-> continuousMonthly.monthlyCost],
       [key |-> "season", cost |-> season.monthlyCost] >>
    \o (IF series10 # <<>>
        THEN << [key |-> "series10", cost |-> series10[1].monthlyCost] >>
        ELSE <<>>)
    \o (IF series20 # <<>>
        THEN << [key |-> "series20", cost |-> series20[1].monthlyCost] >>
        ELSE <<>>)

BuildOptions(single, season, continuousMonthly, series10, series20) ==
    << [key |-> "single", cost |-> single.monthlyCost],
       [key |-> "season", cost |-> season.monthlyCost],
       [key |-> "continuousMonthly", cost |-> continuousMonthly.monthlyCost] >>
    \o (IF series10 # <<>>
        THEN << [key |-> "series10", cost |-> series10[1].monthlyCost] >>
        ELSE <<>>)
    \o (IF series20 # <<>>
        THEN << [key |-> "series20", cost |-> series20[1].monthlyCost] >>
        ELSE <<>>)

findOptimalOption(n, p) ==
    LET single == calculateSingleTicketCost(n, p.single)
        season == calculateSeasonTicketCost(p.season)
        continuousMonthly ==
            calculateContinuousMonthlyTicketCost(p.season, p.continuousMonthly)
        series10 == IF p.series10 # <<>>
                    THEN <<calculateSeriesTicketCost(n, p.series10[1])>>
                    ELSE <<>>
        series20 == IF p.series20 # <<>>
                    THEN <<calculateSeriesTicketCost(n, p.series20[1])>>
                    ELSE <<>>
        options == SortOptions(BuildOptions(single, season, continuousMonthly,
                                            series10, series20))
    IN [single |-> [monthlyCost |-> single.monthlyCost,
                    annualCost |-> single.annualCost,
                    calculation |-> single.calculation],
        series10 |-> series10,
        series20 |-> series20,
        season |-> season,
        continuousMonthly |-> continuousMonthly,
        optimal |-> IF options # <<>> THEN options[1].key ELSE "single"]

(***************************************************************************)
(* CacheManager over localStorage.  A key of the store is the pair of its  *)
(* prefix and the rest of the string: getCacheKey(k) is <<CACHE_PREFIX,    *)
(* k>>, a key written by somebody else has another first component; the    *)
(* rest is the tuple of the parts of the string.  An                       *)
(* item is <<>> (no item) or <<string>>.  A JavaScript value is a record   *)
(* tagged with its type.                                                   *)
(***************************************************************************)
Null == [js |-> "null"]

Undefined == [js |-> "undefined"]

PricesKey(zones, customerGroup, homemunicipality) ==
    <<"prices", zones, customerGroup, homemunicipality>>

getCacheKey(k) == <<CACHE_PREFIX, k>>

CacheKeys ==
    { PricesKey(z, g, m) : z \in Zones, g \in CustomerGroups, m \in Municipalities }

StoreKeys == { getCacheKey(k) : k \in CacheKeys }

\* JSON.stringify of a cache item: a property whose value is undefined is
\* left out of the text.
JSONstringify(cacheItem) ==
    [text |-> "json",
     item |-> IF cacheItem.value = Undefined
              THEN [timestamp |-> cacheItem.timestamp, ttl |-> cacheItem.ttl]
              ELSE cacheItem]

\* JSON.parse succeeds on the strings JSON.stringify wrote.
IsJSON(string) == string.text = "json"

JSONparse(string) == string.item

startsWithPrefix(storeKey) == storeKey[1] = CACHE_PREFIX

(***************************************************************************)
(* localStorage with faults.  An operation of CacheManager runs on         *)
(* io = [s, n, writes, faults]: the store, the number of localStorage      *)
(* calls and of setItem calls made so far, and the script of the faults.   *)
(* The script names the calls that throw an error (by their position in    *)
(* the operation) and says whether the quota of the store is exceeded:     *)
(* "once", setItem throws the DOMException QuotaExceededError until        *)
(* something was written or wiped, that is on the first write only;        *)
(* "persists", every setItem throws it.  A completion is a return with a   *)
(* value or a throw with an error.                                         *)
(***************************************************************************)
NoFaults == [at |-> {}, quota |-> "none"]

IO(s, faults) == [s |-> s, n |-> 0, writes |-> 0, faults |-> faults]

Fails(io) == (io.n + 1) \in io.faults.at

Called(io) == [io EXCEPT !.n = @ + 1]

Returns(io, v) == [threw |-> FALSE, value |-> v, io |-> io]

Throws(io, e) == [threw |-> TRUE, error |-> e, io |-> io]

StorageError == [name |-> "Error", isDOMException |-> FALSE]

QuotaExceededError == [name |-> "QuotaExceededError", isDOMException |-> TRUE]

SyntaxError == [name |-> "SyntaxError", isDOMException |-> FALSE]

\* F applied to the value of v, which is evaluated once.
Once(v, F(_)) == CHOOSE r \in { F(x) : x \in {v} } : TRUE

\* The elements of a set in a fixed order.
RECURSIVE Enumerated(_)
Enumerated(S) ==
    IF S = {} THEN <<>>
    ELSE Once(CHOOSE x \in S : TRUE, LAMBDA x : <<x>> \o Enumerated(S \ {x}))

\* The keys of localStorage when CacheManager is taken on its own: the
\* caller's key and one written earlier under the prefix, and the keys of
\* other users of the store.
CallerKeys == {<<"test-key">>}

PrefixedKeys == { getCacheKey(k) : k \in CallerKeys \cup {<<"other-key">>} }

ForeignKeys == {<<"other_", <<"key">>>>, <<"theme", <<>>>>}

LocalStorageKeys == PrefixedKeys \cup ForeignKeys

HoldsItem(s, k) == k \in DOMAIN s /\ s[k] # <<>>

\* The keys that hold an item, in the order in which localStorage.key
\* enumerates them.
PresentKeys(s) == Enumerated({ k \in DOMAIN s : HoldsItem(s, k) })

getItem(io, storeKey) ==
    IF Fails(io) THEN Throws(Called(io), StorageError)
    ELSE Returns(Called(io), io.s[storeKey])

QuotaExceeded(io) ==
    \/ io.faults.quota = "persists"
    \/ io.faults.quota = "once" /\ io.writes = 0

Written(io) == [Called(io) EXCEPT !.writes = @ + 1]

setItem(io, storeKey, string) ==
    IF Fails(io) THEN Throws(Written(io), StorageError)
    ELSE IF QuotaExceeded(io) THEN Throws(Written(io), QuotaExceededError)
    ELSE Returns([Written(io) EXCEPT !.s[storeKey] = <<string>>], Undefined)

removeItem(io, storeKey) ==
    IF Fails(io) THEN Throws(Called(io), StorageError)
    ELSE Returns([Called(io) EXCEPT !.s[storeKey] = <<>>], Undefined)

storageLength(io) ==
    IF Fails(io) THEN Throws(Called(io), StorageError)
    ELSE Returns(Called(io), Len(PresentKeys(io.s)))

\* localStorage.key(i), i counted from 0: <<>> is null.
storageKey(io, i) ==
    IF Fails(io) THEN Throws(Called(io), StorageError)
    ELSE Returns(Called(io),
                 IF i < Len(PresentKeys(io.s))
                 THEN <<PresentKeys(io.s)[i + 1]>> ELSE <<>>)

(***************************************************************************)
(* The operations of CacheManager at time t (Date.now()).  The body of a   *)
(* try block completes by a return or a throw; the catch block turns the   *)
(* throw into the return of the method.                                    *)
(***************************************************************************)
\* (now - cacheItem.timestamp) > cacheItem.ttl
Older(cacheItem, t) == (t - cacheItem.timestamp) > cacheItem.ttl

OlderOrEqual(cacheItem, t) == (t - cacheItem.timestamp) >= cacheItem.ttl

isExpiredAtOrAfterTtl(io, k, t) ==
    Once(getItem(io, getCacheKey(k)), LAMBDA item :
        IF item.threw THEN Returns(item.io, TRUE)
        ELSE IF item.value = <<>> THEN Returns(item.io, TRUE)
        ELSE IF ~IsJSON(item.value[1]) THEN Returns(item.io, TRUE)
        ELSE Returns(item.io, OlderOrEqual(JSONparse(item.value[1]), t)))

isExpired(io, k, t) ==
    Once(getItem(io, getCacheKey(k)), LAMBDA item :
        LET body ==
                IF item.threw THEN item
                ELSE IF item.value = <<>> THEN Returns(item.io, TRUE)
                ELSE IF ~IsJSON(item.value[1]) THEN Throws(item.io, SyntaxError)
                ELSE Returns(item.io, Older(JSONparse(item.value[1]), t))
        IN IF body.threw THEN Returns(body.io, TRUE) ELSE body)

removeUncaught(io, k) == removeItem(io, getCacheKey(k))

remove(io, k) ==
    Once(removeItem(io, getCacheKey(k)), LAMBDA body :
        IF body.threw THEN Returns(body.io, Undefined) ELSE body)

\* Reading cacheItem.value.
PropertyOrNull(object, name) ==
    IF name \in DOMAIN object THEN object[name] ELSE Null

Property(object, name) ==
    IF name \in DOMAIN object THEN object[name] ELSE Undefined

getWithoutRemoval(io, k, t) ==
    Once(getItem(io, getCacheKey(k)), LAMBDA item :
        IF item.threw THEN Returns(item.io, Null)
        ELSE IF item.value = <<>> THEN Returns(item.io, Null)
        ELSE IF ~IsJSON(item.value[1]) THEN Returns(item.io, Null)
        ELSE Once(isExpired(item.io, k, t), LAMBDA expired :
                 IF expired.value THEN Returns(expired.io, Null)
                 ELSE Returns(expired.io,
                              Property(JSONparse(item.value[1]), "value"))))

\* The try block of get.
getBody(io, k, t) ==
    Once(getItem(io, getCacheKey(k)), LAMBDA item :
        IF item.threw THEN item
        ELSE IF item.value = <<>> THEN Returns(item.io, Null)
        ELSE IF ~IsJSON(item.value[1]) THEN Throws(item.io, SyntaxError)
        ELSE Once(isExpired(item.io, k, t), LAMBDA expired :
                 IF expired.threw THEN expired
                 ELSE IF expired.value
                 THEN Once(remove(expired.io, k), LAMBDA removed :
                          IF removed.threw THEN removed
                          ELSE Returns(removed.io, Null))
                 ELSE Returns(expired.io,
                              Property(JSONparse(item.value[1]), "value"))))

get(io, k, t) ==
    Once(getBody(io, k, t), LAMBDA body :
        IF body.threw THEN Returns(body.io, Null) ELSE body)

\* The loop of clear: the keys collected from index i on, those with the
\* prefix when prefixOnly.
RECURSIVE clearScan(_, _, _, _)
clearScan(io, i, keysToRemove, prefixOnly) ==
    Once(storageLength(io), LAMBDA length :
        IF length.threw THEN length
        ELSE IF ~(i < length.value) THEN Returns(length.io, keysToRemove)
        ELSE Once(storageKey(length.io, i), LAMBDA storeKey :
                 IF storeKey.threw THEN storeKey
                 ELSE clearScan(storeKey.io, i + 1,
                                IF storeKey.value # <<>>
                                   /\ (prefixOnly => startsWithPrefix(storeKey.value[1]))
                                THEN Append(keysToRemove, storeKey.value[1])
                                ELSE keysToRemove,
                                prefixOnly)))

\* keysToRemove.forEach(key => localStorage.removeItem(key))
RECURSIVE removeEach(_, _)
removeEach(io, keysToRemove) ==
    IF keysToRemove = <<>> THEN Returns(io, Undefined)
    ELSE Once(removeItem(io, Head(keysToRemove)), LAMBDA removed :
             IF removed.threw THEN removed
             ELSE removeEach(removed.io, Tail(keysToRemove)))

clearEverything(io) ==
    Once(clearScan(io, 0, <<>>, FALSE), LAMBDA scanned :
        Once(IF scanned.threw THEN scanned
             ELSE removeEach(scanned.io, scanned.value), LAMBDA body :
            IF body.threw THEN Returns(body.io, Undefined) ELSE body))

clear(io) ==
    Once(clearScan(io, 0, <<>>, TRUE), LAMBDA scanned :
        Once(IF scanned.threw THEN scanned
             ELSE removeEach(scanned.io, scanned.value), LAMBDA body :
            IF body.threw THEN Returns(body.io, Undefined) ELSE body))

\* The inner try of cleanup on the key k: whether k is to be removed.
cleanupPushes(item, t) ==
    IF item.threw THEN TRUE
    ELSE IF item.value = <<>> THEN FALSE
    ELSE IF ~IsJSON(item.value[1]) THEN TRUE
    ELSE Older(JSONparse(item.value[1]), t)

\* The loop of cleanup: the keys with the prefix whose item is expired,
\* cannot be parsed or cannot be read.
RECURSIVE cleanupScan(_, _, _, _)
cleanupScan(io, i, keysToRemove, t) ==
    Once(storageLength(io), LAMBDA length :
        IF length.threw THEN length
        ELSE IF ~(i < length.value) THEN Returns(length.io, keysToRemove)
        ELSE Once(storageKey(length.io, i), LAMBDA storeKey :
                 IF storeKey.threw THEN storeKey
                 ELSE IF storeKey.value = <<>>
                         \/ ~startsWithPrefix(storeKey.value[1])
                 THEN cleanupScan(storeKey.io, i + 1, keysToRemove, t)
                 ELSE Once(getItem(storeKey.io, storeKey.value[1]), LAMBDA item :
                          cleanupScan(item.io, i + 1,
                                      IF cleanupPushes(item, t)
                                      THEN Append(keysToRemove, storeKey.value[1])
                                      ELSE keysToRemove, t))))

cleanup(io, t) ==
    Once(cleanupScan(io, 0, <<>>, t), LAMBDA scanned :
        Once(IF scanned.threw THEN scanned
             ELSE removeEach(scanned.io, scanned.value), LAMBDA body :
            IF body.threw THEN Returns(body.io, Undefined) ELSE body))

\* The part of the loop of getStats that follows getItem.
getStatsCounts(item, t) ==
    IF item.value = <<>> THEN FALSE
    ELSE IF ~IsJSON(item.value[1]) THEN TRUE
    ELSE Older(JSONparse(item.value[1]), t)

\* The loop of getStats; stats is what has been counted so far and is what
\* getStats returns when a call of the loop throws.  totalSize, a number of
\* characters, is not modelled.
RECURSIVE getStatsScan(_, _, _, _)
getStatsScan(io, i, stats, t) ==
    Once(storageLength(io), LAMBDA length :
        IF length.threw \/ ~(i < length.value) THEN Returns(length.io, stats)
        ELSE Once(storageKey(length.io, i), LAMBDA storeKey :
                 IF storeKey.threw THEN Returns(storeKey.io, stats)
                 ELSE IF storeKey.value = <<>>
                         \/ ~startsWithPrefix(storeKey.value[1])
                 THEN getStatsScan(storeKey.io, i + 1, stats, t)
                 ELSE Once(getItem(storeKey.io, storeKey.value[1]), LAMBDA item :
                          IF item.threw
                          THEN Returns(item.io,
                                       [stats EXCEPT !.totalItems = @ + 1])
                          ELSE getStatsScan(item.io, i + 1,
                                   [stats EXCEPT
                                       !.totalItems = @ + 1,
                                       !.expiredItems =
                                           IF getStatsCounts(item, t)
                                           THEN @ + 1 ELSE @], t))))

getStats(io, t) ==
    getStatsScan(io, 0, [totalItems |-> 0, expiredItems |-> 0], t)

\* error instanceof DOMException && error.name === 'QuotaExceededError'
IsQuotaExceeded(error) ==
    error.isDOMException /\ error.name = "QuotaExceededError"

setWithoutRetry(io, k, value, ttl, t) ==
    Once(setItem(io, getCacheKey(k),
                 JSONstringify([value |-> value, timestamp |-> t, ttl |-> ttl])),
         LAMBDA written :
        IF ~written.threw THEN written
        ELSE IF IsQuotaExceeded(written.error)
        THEN Once(clear(written.io), LAMBDA cleared :
                 IF cleared.threw THEN cleared
                 ELSE Returns(cleared.io, Undefined))
        ELSE Returns(written.io, Undefined))

set(io, k, value, ttl, t) ==
    Once(setItem(io, getCacheKey(k),
                 JSONstringify([value |-> value, timestamp |-> t, ttl |-> ttl])),
         LAMBDA written :
        IF ~written.threw THEN written
        ELSE IF IsQuotaExceeded(written.error)
        THEN Once(clear(written.io), LAMBDA cleared :
                 IF cleared.threw THEN cleared
                 ELSE Once(setItem(cleared.io, getCacheKey(k),
                                   JSONstringify([value |-> value, timestamp |-> t,
                                                  ttl |-> ttl])),
                           LAMBDA retried : Returns(retried.io, Undefined)))
        ELSE Returns(written.io, Undefined))

(***************************************************************************)
(* The cache of PriceService.  What setItem does on the write of a         *)
(* snapshot and on its retry is one of SetItemFaults; the other calls of   *)
(* localStorage succeed.                                                   *)
(***************************************************************************)
SetItemFaults == {"none", "quota_then_ok", "quota_twice", "other_error"}

\* The script of a fault of SetItemFaults.
SetItemScript(fault) ==
    CASE fault = "none" -> NoFaults
      [] fault = "quota_then_ok" -> [at |-> {}, quota |-> "once"]
      [] fault = "quota_twice" -> [at |-> {}, quota |-> "persists"]
      [] fault = "other_error" -> [at |-> {1}, quota |-> "none"]

\* getCachedPrices: the value (<<>> for null) and the store left behind.
getCachedPrices(s, cacheKey, t) ==
    LET got == get(IO(s, NoFaults), cacheKey, t)
    IN [value |-> IF got.value = Null THEN <<>> ELSE <<got.value>>,
        store |-> got.io.s]

\* isCacheValid(timestamp), with t for Date.now().
isCacheValid(timestamp, t) == t - timestamp < CACHE_TTL
setCachedPricesWithoutTtl(s, cacheKey, p, t, fault) ==
    set(IO(s, SetItemScript(fault)), cacheKey, p, 0, t).io.s

\* The same write, were it to keep the timestamp of the snapshot it replaces.
setCachedPricesOntoEarlier(s, cacheKey, p, t, fault) ==
    LET earlier == s[getCacheKey(cacheKey)]
        merged == IF earlier = <<>>
                  THEN p
                  ELSE [p EXCEPT !.timestamp = earlier[1].item.value.timestamp]
    IN set(IO(s, SetItemScript(fault)), cacheKey, merged, CACHE_TTL, t).io.s
setCachedPrices(s, cacheKey, p, t, fault) ==
    set(IO(s, SetItemScript(fault)), cacheKey, p, CACHE_TTL, t).io.s

(***************************************************************************)
(* Errors.  A message is its literal text and the contexts appended to it  *)
(* by handleAPIError; Includes is String.prototype.includes on it.         *)
(***************************************************************************)
Message(base) == [base |-> base, ctx |-> <<>>]

BaseIncludes(base, needle) ==
    \/ base = needle
    \/ /\ needle = "single ticket"
       /\ base \in {"No single tickets found in response",
                    "Invalid single ticket data in response"}
    \/ /\ needle = "daily ticket"
       /\ base \in {"No daily tickets found in response",
                    "Invalid daily ticket data in response"}
    \/ /\ needle = "timeout"
       /\ base \in {"Request timeout"}
    \/ /\ needle = "CORS"
       /\ base \in {"CORS error - browser security settings blocking request",
                    "CORS error", "blocked by CORS policy"}
    \/ /\ needle = "cors"
       /\ base \in {"cors request did not succeed"}
    \/ /\ needle = "Failed to fetch"
       /\ base \in {"Failed to fetch"}
    \/ /\ needle = "NetworkError"
       /\ base \in {"NetworkError when attempting to fetch resource."}

Includes(message, needle) ==
    \/ BaseIncludes(message.base, needle)
    \/ \E i \in 1..Len(message.ctx) : message.ctx[i] = needle

APIError(message, type, originalError) ==
    [class |-> "APIError", type |-> type, message |-> message,
     originalError |-> originalError]

PlainError(name, base) ==
    [class |-> "Error", name |-> name, message |-> Message(base)]

NonError == [class |-> "NonError"]

ErrorTypes == {"network", "cors", "invalid_response", "rate_limit"}

Ok(v) == [ok |-> TRUE, value |-> <<v>>]

Fail(e) == [ok |-> FALSE, error |-> e]

\* context is <<>> (not given) or <<c>>.
NeedsContextAlways(error, context) == context # <<>>

\* context && !error.message.includes(context)
NeedsContext(error, context) ==
    context # <<>> /\ ~Includes(error.message, context[1])

handleAPIError(error, context) ==
    IF error.class = "APIError"
    THEN IF NeedsContext(error, context)
         THEN APIError([error.message EXCEPT !.ctx = Append(@, context[1])],
                       error.type, error.originalError)
         ELSE error
    ELSE IF error.class = "Error"
    THEN IF Includes(error.message, "CORS")
         THEN APIError([base |-> "CORS error", ctx |-> context], "cors", <<error>>)
         ELSE IF Includes(error.message, "timeout")
                     \/ Includes(error.message, "AbortError")
         THEN APIError([base |-> "Request timeout", ctx |-> context],
                       "network", <<error>>)
         ELSE IF Includes(error.message, "Failed to fetch")
                     \/ Includes(error.message, "NetworkError")
         THEN APIError([base |-> "Network error", ctx |-> context],
                       "network", <<error>>)
         ELSE APIError([base |-> "API error", ctx |-> context],
                       "invalid_response", <<error>>)
    ELSE APIError([base |-> "Unknown error", ctx |-> context], "network", <<>>)

(***************************************************************************)
(* makeRequest(url): what fetch and response.json() did is the raw         *)
(* outcome, a response with a status and a body (<<>> when the body is     *)
(* not JSON) or an exception thrown by the transport.                      *)
(***************************************************************************)
Response(status, body) == [kind |-> "response", status |-> status, body |-> body]

Thrown(error) == [kind |-> "thrown", error |-> error]

RawFailures ==
    { Response(429, <<>>),
      Response(500, <<>>),
      Response(200, <<>>),
      Thrown(PlainError("AbortError", "The operation was aborted.")),
      Thrown(PlainError("TypeError", "Failed to fetch")),
      Thrown(PlainError("TypeError", "blocked by CORS policy")),
      Thrown(NonError) }

\* `HTTP ${response.status}: ${response.statusText}`; the status text, which
\* the server chooses, is not modelled.
HttpMessage(status) == [base |-> "HTTP", status |-> status, ctx |-> <<>>]

HttpErrorWithoutRateLimit(status) ==
    APIError(HttpMessage(status), "network", <<>>)

\* The error thrown for a response that is not ok.
HttpError(status) ==
    IF status = 429
    THEN APIError(Message("Too many requests"), "rate_limit", <<>>)
    ELSE APIError(HttpMessage(status), "network", <<>>)

\* response.ok
IsOk(status) == status >= 200 /\ status <= 299

makeRequest(raw) ==
    IF raw.kind = "response"
    THEN IF ~IsOk(raw.status)
         THEN Fail(HttpError(raw.status))
         ELSE IF raw.body = <<>>
              THEN Fail(APIError(Message("Unknown error occurred"), "network",
                                 <<PlainError("SyntaxError", "Unexpected token")>>))
              ELSE [ok |-> TRUE, value |-> raw.body]
    ELSE LET error == raw.error
         IN IF error.class = "APIError"
            THEN Fail(error)
            ELSE IF error.class = "Error" /\ error.name = "AbortError"
            THEN Fail(APIError(Message("Request timeout"), "network", <<error>>))
            ELSE IF error.class = "Error"
                    /\ (Includes(error.message, "CORS")
                        \/ Includes(error.message, "cors"))
            THEN Fail(APIError(
                     Message("CORS error - browser security settings blocking request"),
                     "cors", <<error>>))
            ELSE IF error.class = "Error"
                    /\ (Includes(error.message, "Failed to fetch")
                        \/ Includes(error.message, "NetworkError"))
            THEN Fail(APIError(
                     Message("Network error - please check your internet connection"),
                     "network", <<error>>))
            ELSE Fail(APIError(Message("Unknown error occurred"), "network",
                               <<error>>))

(***************************************************************************)
(* Upstream listings.  A body is null or an object whose tickets and       *)
(* subscriptions are <<>> (field absent) or <<list>>; a price is <<>>      *)
(* (not a number) or <<cents>>.  Titles are written without diacritics.    *)
(***************************************************************************)
parseInt(zones) ==
    CASE zones = "11" -> 11
      [] zones = "12" -> 12
      [] zones = "99" -> 99

NullBody == [isObject |-> FALSE]

Body(tickets, subscriptions) ==
    [isObject |-> TRUE, tickets |-> tickets, subscriptions |-> subscriptions]

Ticket(ticketType, customerGroup, zones, title, price, durationDays, durationMinutes) ==
    [ticketType |-> ticketType, customerGroup |-> customerGroup, zones |-> zones,
     title |-> title, price |-> price, durationDays |-> durationDays,
     durationMinutes |-> durationMinutes]

Subscription(customerGroup, zones, title, price) ==
    [customerGroup |-> customerGroup, zones |-> zones, title |-> title,
     price |-> price]

TitleIncludes(title, needle) ==
    \/ needle = "lahimaksu" /\ title \in {"lahimaksu kertalippu"}
    \/ needle = "paiva" /\ title \in {"paivalippu"}
    \/ needle = "Jatkuva tilaus" /\ title \in {"Jatkuva tilaus"}
    \/ needle = "saastotilaus" /\ title \in {"Jatkuva saastotilaus"}

toLowerCase(title) ==
    CASE title = "Lahimaksu kertalippu" -> "lahimaksu kertalippu"
      [] title = "Paivalippu" -> "paivalippu"
      [] OTHER -> title

OtherGroup == 2

SingleBodies(zones, customerGroup) ==
    LET z == parseInt(zones)
    IN { Body(<< <<Ticket(1, customerGroup, z, "Lahimaksu kertalippu", <<300>>, 0, 80),
                   Ticket(1, customerGroup, z, "Kertalippu", <<320>>, 0, 80)>> >>,
              <<>>),
         Body(<< <<Ticket(1, OtherGroup, z, "Kertalippu", <<160>>, 0, 80)>> >>, <<>>),
         Body(<< <<Ticket(1, customerGroup, z, "Kertalippu", <<>>, 0, 80)>> >>, <<>>),
         Body(<< <<>> >>, <<>>),
         Body(<<>>, <<>>),
         NullBody }

DayBodies(zones, customerGroup) ==
    LET z == parseInt(zones)
    IN { Body(<< <<Ticket(2, customerGroup, z, "Vuorokausilippu", <<1300>>, 2, 2880),
                   Ticket(2, customerGroup, z, "Paivalippu", <<900>>, 0, 0)>> >>,
              <<>>),
         Body(<< <<Ticket(2, customerGroup, z, "Vuorokausilippu", <<>>, 1, 1440)>> >>,
              <<>>),
         Body(<<>>, <<>>) }

SeasonTickets(zones, customerGroup) ==
    LET z == parseInt(zones)
    IN <<Ticket(3, customerGroup, z, "Kausilippu 14", <<5600>>, 14, 0),
         Ticket(3, customerGroup, z, "Kausilippu 30", <<10770>>, 30, 0)>>

SeasonBodies(zones, customerGroup) ==
    LET z == parseInt(zones)
    IN { Body(<<SeasonTickets(zones, customerGroup)>>,
              << <<Subscription(customerGroup, z, "Jatkuva saastotilaus", <<8980>>),
                   Subscription(customerGroup, z, "Jatkuva tilaus", <<10230>>)>> >>),
         Body(<<SeasonTickets(zones, customerGroup)>>, <<>>),
         Body(<< <<Ticket(3, customerGroup, z, "Kausilippu 14", <<5600>>, 14, 0)>> >>,
              <<>>),
         NullBody }

RawOutcomes(bodies) == RawFailures \cup { Response(200, <<b>>) : b \in bodies }

\* The index of the first element of list that satisfies Test, 0 if none.
FindIndex(list, Test(_)) ==
    IF \E i \in 1..Len(list) : Test(list[i])
    THEN CHOOSE i \in 1..Len(list) :
             Test(list[i]) /\ \A j \in 1..(i - 1) : ~Test(list[j])
    ELSE 0

NullDereference == PlainError("TypeError", "Cannot read properties of null")

(***************************************************************************)
(* fetchSingleTicketPrice and fetchDailyTicketPrice, applied to the raw    *)
(* outcome of their request.                                               *)
(***************************************************************************)
fetchSingleTicketPrice(raw, zones, customerGroup) ==
    LET context == <<"single ticket">>
        response == makeRequest(raw)
    IN IF ~response.ok
       THEN Fail(handleAPIError(response.error, context))
       ELSE LET body == response.value[1]
            IN IF ~body.isObject
               THEN Fail(handleAPIError(NullDereference, context))
               ELSE IF body.tickets = <<>> \/ Len(body.tickets[1]) = 0
               THEN Fail(handleAPIError(
                        APIError(Message("No single tickets found in response"),
                                 "invalid_response", <<>>), context))
               ELSE LET tickets == body.tickets[1]
                        IsSingle(ticket) ==
                            /\ ticket.ticketType = 1
                            /\ ticket.customerGroup = customerGroup
                            /\ ticket.zones = parseInt(zones)
                            /\ ~TitleIncludes(toLowerCase(ticket.title), "lahimaksu")
                        i == FindIndex(tickets, IsSingle)
                    IN IF i = 0 \/ tickets[i].price = <<>>
                       THEN Fail(handleAPIError(
                                APIError(Message("Invalid single ticket data in response"),
                                         "invalid_response", <<>>), context))
                       ELSE Ok(tickets[i].price[1])

fetchDailyTicketPrice(raw, zones, customerGroup) ==
    LET context == <<"daily ticket">>
        response == makeRequest(raw)
    IN IF ~response.ok
       THEN Fail(handleAPIError(response.error, context))
       ELSE LET body == response.value[1]
            IN IF ~body.isObject
               THEN Fail(handleAPIError(NullDereference, context))
               ELSE IF body.tickets = <<>> \/ Len(body.tickets[1]) = 0
               THEN Fail(handleAPIError(
                        APIError(Message("No daily tickets found in response"),
                                 "invalid_response", <<>>), context))
               ELSE LET tickets == body.tickets[1]
                        IsDaily(ticket) ==
                            /\ ticket.customerGroup = customerGroup
                            /\ ticket.zones = parseInt(zones)
                            /\ (\/ ticket.durationDays = 1
                                \/ ticket.durationMinutes = 1440
                                \/ TitleIncludes(toLowerCase(ticket.title), "paiva"))
                        i == FindIndex(tickets, IsDaily)
                    IN IF i = 0 \/ tickets[i].price = <<>>
                       THEN Fail(handleAPIError(
                                APIError(Message("Invalid daily ticket data in response"),
                                         "invalid_response", <<>>), context))
                       ELSE Ok(tickets[i].price[1])

getSeasonResponseWithRetry(raw) ==
    LET response == makeRequest(raw)
    IN IF response.ok THEN Ok(response.value[1]) ELSE response

(***************************************************************************)
(* getSeriesTicketOptions(zones)                                           *)
(***************************************************************************)
SERIES_PRICING ==
    [z \in {"11", "12"} |->
        IF z = "11" THEN [trips10 |-> 2880, trips20 |-> 5440]
                    ELSE [trips10 |-> 3960, trips20 |-> 7480]]

getSeriesTicketOptions(zones) ==
    IF zones \notin DOMAIN SERIES_PRICING
    THEN <<>>
    ELSE LET pricing == SERIES_PRICING[zones]
         IN << [price |-> pricing.trips10, journeys |-> 10, validityDays |-> 30],
               [price |-> pricing.trips20, journeys |-> 20, validityDays |-> 60] >>

(***************************************************************************)
(* The composition of the snapshot in fetchTicketPrices, once the three    *)
(* fetches are fulfilled (lines 84-151).                                   *)
(***************************************************************************)
\* The same choice, were the fallback the season price itself.
continuousMonthlyWithoutDiscount(continuousMonthlyFromSubs, monthlyEquivalent) ==
    IF continuousMonthlyFromSubs # <<>>
    THEN continuousMonthlyFromSubs[1]
    ELSE monthlyEquivalent

\* Lines 126-128: continuousMonthlyFromSubs ?? Math.round(monthly * 0.95 * 100) / 100.
continuousMonthlyFinal(continuousMonthlyFromSubs, monthlyEquivalent) ==
    IF continuousMonthlyFromSubs # <<>>
    THEN continuousMonthlyFromSubs[1]
    ELSE MathRound(monthlyEquivalent * 95, 100)

composePrices(singlePrice, dailyPrice, seasonResponse, zones, customerGroup, t) ==
    IF ~seasonResponse.isObject
    THEN Fail(NullDereference)
    ELSE
    LET Is30Day(ticket) ==
            /\ ticket.customerGroup = customerGroup
            /\ ticket.zones = parseInt(zones)
            /\ ticket.durationDays = 30
        tickets == IF seasonResponse.tickets = <<>>
                   THEN <<>> ELSE seasonResponse.tickets[1]
        m == FindIndex(tickets, Is30Day)
        monthlyEquivalent ==
            IF m # 0 /\ tickets[m].price # <<>> THEN tickets[m].price ELSE <<>>
        subscriptions == IF seasonResponse.subscriptions = <<>>
                         THEN <<>> ELSE seasonResponse.subscriptions[1]
        IsContinuous(s) ==
            /\ s.customerGroup = customerGroup
            /\ s.zones = parseInt(zones)
            /\ TitleIncludes(s.title, "Jatkuva tilaus")
            /\ ~TitleIncludes(s.title, "saastotilaus")
        IsSaver(s) ==
            /\ s.customerGroup = customerGroup
            /\ s.zones = parseInt(zones)
            /\ TitleIncludes(s.title, "saastotilaus")
        c == FindIndex(subscriptions, IsContinuous)
        v == FindIndex(subscriptions, IsSaver)
        continuousMonthlyFromSubs ==
            IF c # 0 /\ subscriptions[c].price # <<>>
            THEN subscriptions[c].price ELSE <<>>
        saverSubscriptionFromSubs ==
            IF v # 0 /\ subscriptions[v].price # <<>>
            THEN subscriptions[v].price ELSE <<>>
        seriesOptions == getSeriesTicketOptions(zones)
        IsTen(ticket) == ticket.journeys = 10
        IsTwenty(ticket) == ticket.journeys = 20
        series10 == FindIndex(seriesOptions, IsTen)
        series20 == FindIndex(seriesOptions, IsTwenty)
    IN IF monthlyEquivalent = <<>>
       THEN Fail(APIError(Message("No 30-day season ticket found in response"),
                          "invalid_response", <<>>))
       ELSE IF series10 = 0 \/ series20 = 0
       THEN Fail(APIError(Message("Series ticket options not available for zone"),
                          "invalid_response", <<>>))
       ELSE Ok([single |-> singlePrice,
                series10 |-> seriesOptions[series10],
                series20 |-> seriesOptions[series20],
                daily |-> dailyPrice,
                monthly |-> monthlyEquivalent[1],
                continuousMonthly |->
                    continuousMonthlyFinal(continuousMonthlyFromSubs,
                                           monthlyEquivalent[1]),
                season |-> [price |-> monthlyEquivalent[1], durationDays |-> 30,
                            type |-> "season"],
                saverSubscription |->
                    IF saverSubscriptionFromSubs # <<>>
                    THEN saverSubscriptionFromSubs[1]
                    ELSE monthlyEquivalent[1],
                timestamp |-> t])

(***************************************************************************)
(* fetchTicketPrices as a process.  A call is idle, fetching (suspended    *)
(* in Promise.all), returned or rejected.  req is the state of each of     *)
(* its requests, got the values of the fulfilled fetches, and outcome the  *)
(* snapshot or the error the call produced.  A request settles in one      *)
(* step together with every continuation its settlement resumes.           *)
(***************************************************************************)
RequiredFetches == {"single", "day", "season"}

NoRequests == [r \in RequiredFetches \cup {"probe"} |-> "unsent"]

NoGot == [r \in RequiredFetches |-> <<>>]

IdleCall ==
    [pc |-> "idle", zones |-> "11", customerGroup |-> 1,
     homemunicipality |-> "helsinki", req |-> NoRequests, got |-> NoGot,
     outcome |-> <<>>, fromCache |-> FALSE]

CacheKeyOfCall(call) ==
    PricesKey(call.zones, call.customerGroup, call.homemunicipality)

Quiescent(call) == \A r \in DOMAIN call.req : call.req[r] # "pending"

InitFetch ==
    /\ store = [k \in StoreKeys |-> <<>>]
    /\ now = 0
    /\ calls = [c \in CallIds |-> IdleCall]

\* Lines 60-71 and the start of the three fetches at lines 75-79.
RequestsAfterCacheLookup ==
    [NoRequests EXCEPT !["single"] = "pending", !["day"] = "pending",
                       !["season"] = "pending"]

RequestsBeforeCacheLookup ==
    [NoRequests EXCEPT !["single"] = "pending", !["day"] = "pending",
                       !["season"] = "pending", !["probe"] = "pending"]

RequestsOnCacheHit == NoRequests

FetchTicketPrices(c, zones, customerGroup, homemunicipality) ==
    /\ c \in callers
    /\ calls[c].pc # "fetching"
    /\ Quiescent(calls[c])
    /\ LET cacheKey == PricesKey(zones, customerGroup, homemunicipality)
           cachedPrices == getCachedPrices(store, cacheKey, now)
           started == [IdleCall EXCEPT !.zones = zones,
                                       !.customerGroup = customerGroup,
                                       !.homemunicipality = homemunicipality]
       IN /\ store' = cachedPrices.store
          /\ calls' = [calls EXCEPT ![c] =
                IF cachedPrices.value # <<>>
                THEN [started EXCEPT !.pc = "returned",
                                     !.req = RequestsOnCacheHit,
                                     !.outcome = cachedPrices.value,
                                     !.fromCache = TRUE]
                ELSE [started EXCEPT !.pc = "fetching",
                                     !.req = RequestsAfterCacheLookup]]
    /\ UNCHANGED <<now, callers, costVars, ioVars>>

\* The fetched of the fetch function r of a call on a raw outcome.
FetchResult(call, r, raw) ==
    CASE r = "single" ->
             fetchSingleTicketPrice(raw, call.zones, call.customerGroup)
      [] r = "day" ->
             fetchDailyTicketPrice(raw, call.zones, call.customerGroup)
      [] r = "season" -> getSeasonResponseWithRetry(raw)

BodiesOf(call, r) ==
    CASE r = "single" -> SingleBodies(call.zones, call.customerGroup)
      [] r = "day" -> DayBodies(call.zones, call.customerGroup)
      [] r = "season" -> SeasonBodies(call.zones, call.customerGroup)
      [] r = "probe" -> {Body(<< <<>> >>, <<>>)}

\* What the upstream may answer to request r of a call.
Upstream(call, r) == RawOutcomes(BodiesOf(call, r))

Settled(fetched) == IF fetched.ok THEN "fulfilled" ELSE "rejected"

\* A fetch of a call that was already rejected settles: nobody awaits it.
SettleAfterRejection(c, r, upstream) ==
    /\ calls[c].pc = "rejected"
    /\ r \in RequiredFetches
    /\ calls[c].req[r] = "pending"
    /\ \E raw \in upstream :
           calls' = [calls EXCEPT ![c].req[r] =
                        Settled(FetchResult(calls[c], r, raw))]
    /\ UNCHANGED <<store, now, callers, costVars, ioVars>>

\* The same failure, were it to let the call return what it has.
RejectedCallThatReturnsPartial(call, r, error) ==
    [call EXCEPT !.pc = "returned", !.req[r] = "rejected", !.got = NoGot,
                 !.outcome = <<[single |-> 0]>>]

\* A fetch fails while the call is suspended in Promise.all: Promise.all
\* rejects and the catch at line 170 rethrows handleAPIError(error).
RejectedCall(call, r, error) ==
    [call EXCEPT !.pc = "rejected", !.req[r] = "rejected", !.got = NoGot,
                 !.outcome = <<handleAPIError(error, <<>>)>>]

SettleRejected(c, r, upstream) ==
    /\ calls[c].pc = "fetching"
    /\ r \in RequiredFetches
    /\ calls[c].req[r] = "pending"
    /\ \E raw \in upstream :
           LET fetched == FetchResult(calls[c], r, raw)
           IN /\ ~fetched.ok
              /\ calls' = [calls EXCEPT ![c] =
                              RejectedCall(calls[c], r, fetched.error)]
    /\ UNCHANGED <<store, now, callers, costVars, ioVars>>

\* A fetch is fulfilled and another one is still pending.
SettleFulfilled(c, r, upstream) ==
    /\ calls[c].pc = "fetching"
    /\ r \in RequiredFetches
    /\ calls[c].req[r] = "pending"
    /\ \E q \in RequiredFetches \ {r} : calls[c].req[q] = "pending"
    /\ \E raw \in upstream :
           LET fetched == FetchResult(calls[c], r, raw)
           IN /\ fetched.ok
              /\ calls' = [calls EXCEPT ![c].req[r] = "fulfilled",
                                        ![c].got[r] = fetched.value]
    /\ UNCHANGED <<store, now, callers, costVars, ioVars>>

\* The last fetch is fulfilled: Promise.all resolves, the probe is sent
\* (line 82), the snapshot is composed and, if that succeeds, written to
\* the cache and returned (lines 84-169); otherwise the call rejects.
SettleLast(c, r, upstream) ==
    /\ calls[c].pc = "fetching"
    /\ r \in RequiredFetches
    /\ calls[c].req[r] = "pending"
    /\ \A q \in RequiredFetches \ {r} : calls[c].req[q] = "fulfilled"
    /\ \E raw \in upstream :
           LET call == calls[c]
               fetched == FetchResult(call, r, raw)
               got == [call.got EXCEPT ![r] = fetched.value]
               composed == composePrices(got["single"][1], got["day"][1],
                                         got["season"][1], call.zones,
                                         call.customerGroup, now)
               resumed == [call EXCEPT !.req[r] = "fulfilled",
                                       !.req["probe"] = "pending",
                                       !.got = NoGot]
           IN /\ fetched.ok
              /\ IF composed.ok
                 THEN /\ \E fault \in SetItemFaults :
                             store' = setCachedPrices(store, CacheKeyOfCall(call),
                                                      composed.value[1], now, fault)
                      /\ calls' = [calls EXCEPT ![c] =
                                      [resumed EXCEPT !.pc = "returned",
                                                      !.outcome = composed.value]]
                 ELSE /\ store' = store
                      /\ calls' = [calls EXCEPT ![c] =
                                      [resumed EXCEPT
                                          !.pc = "rejected",
                                          !.outcome =
                                              <<handleAPIError(composed.error, <<>>)>>]]
    /\ UNCHANGED <<now, callers, costVars, ioVars>>

\* pingSaverSubscriptionEndpoint: the probe settles, its failure is swallowed.
SettleProbe(c, upstream) ==
    /\ calls[c].req["probe"] = "pending"
    /\ \E raw \in upstream :
           calls' = [calls EXCEPT ![c].req["probe"] = Settled(makeRequest(raw))]
    /\ UNCHANGED <<store, now, callers, costVars, ioVars>>

\* Date.now() advances.
Tick ==
    /\ now < MaxTicks * ClockStep
    /\ now' = now + ClockStep
    /\ UNCHANGED <<store, calls, callers, costVars, ioVars>>

NextFetch ==
    \/ \E c \in CallIds, z \in Zones, g \in CustomerGroups, m \in Municipalities :
           FetchTicketPrices(c, z, g, m)
    \/ \E c \in CallIds, r \in RequiredFetches :
           SettleAfterRejection(c, r, Upstream(calls[c], r))
    \/ \E c \in CallIds, r \in RequiredFetches :
           SettleRejected(c, r, Upstream(calls[c], r))
    \/ \E c \in CallIds, r \in RequiredFetches :
           SettleFulfilled(c, r, Upstream(calls[c], r))
    \/ \E c \in CallIds, r \in RequiredFetches :
           SettleLast(c, r, Upstream(calls[c], r))
    \/ \E c \in CallIds : SettleProbe(c, Upstream(calls[c], "probe"))
    \/ Tick

(***************************************************************************)
(* The cost engine as a state machine: the inputs are drawn in InitCost,   *)
(* each action is one call of a public function on them.                   *)
(***************************************************************************)
NoInvocation == [name |-> "none"]

NoReturn == [kind |-> "none"]

NoInflight == <<>>

IoAtRest ==
    /\ invocation = NoInvocation
    /\ returned = NoReturn
    /\ inflight = NoInflight

InitCost ==
    /\ tripsPerWeek \in TripsDomain
    /\ prices \in PricesDomain
    /\ seriesTicket = <<>>
    /\ op = "none"
    /\ result = NoResult
    /\ InitFetch
    /\ callers = {}
    /\ IoAtRest

CallCalculateSingleTicketCost ==
    /\ op' = "calculateSingleTicketCost"
    /\ result' = calculateSingleTicketCost(tripsPerWeek, prices.single)
    /\ seriesTicket' = <<>>
    /\ UNCHANGED <<tripsPerWeek, prices, fetchVars, ioVars>>

CallCalculateSeriesTicketCost ==
    \E ticket \in SeriesTickets :
        /\ op' = "calculateSeriesTicketCost"
        /\ seriesTicket' = <<ticket>>
        /\ result' = calculateSeriesTicketCost(tripsPerWeek, ticket)
        /\ UNCHANGED <<tripsPerWeek, prices, fetchVars, ioVars>>

CallFindOptimalOption ==
    /\ op' = "findOptimalOption"
    /\ result' = findOptimalOption(tripsPerWeek, prices)
    /\ seriesTicket' = <<>>
    /\ UNCHANGED <<tripsPerWeek, prices, fetchVars, ioVars>>

NextCost ==
    \/ CallCalculateSingleTicketCost
    \/ CallCalculateSeriesTicketCost
    \/ CallFindOptimalOption

SpecCost == InitCost /\ [][NextCost]_vars

(***************************************************************************)
(* The price fetch as a state machine: one caller, whose calls follow one  *)
(* another; the cost engine is at rest.                                    *)
(***************************************************************************)
CostAtRest ==
    /\ tripsPerWeek = 0
    /\ prices = [single |-> 320, series10 |-> <<>>, series20 |-> <<>>,
                 season |-> 10770, continuousMonthly |-> <<>>]
    /\ seriesTicket = <<>>
    /\ op = "none"
    /\ result = NoResult

Init ==
    /\ CostAtRest
    /\ InitFetch
    /\ callers = {"c1"}
    /\ IoAtRest

Next == NextFetch

Spec == Init /\ [][Next]_vars

(***************************************************************************)
(* Concurrent callers: two callers whose calls interleave with each other  *)
(* and with the settlements of their fetches.  The callers ask for two     *)
(* zones (the same key or different keys), the upstream fails with status  *)
(* 429 only, and the clock advances at most MaxConcurrentTicks steps.      *)
(***************************************************************************)
ConcurrentZones(c) == IF c = "c1" THEN {"11", "12"} ELSE {"11"}

\* The answers of the upstream among which only status 429 fails request r.
ConcurrentUpstream(call, r) ==
    { raw \in Upstream(call, r) :
        IF raw.kind = "response" /\ raw.status = 429
        THEN TRUE
        ELSE IF r = "probe" THEN makeRequest(raw).ok
             ELSE FetchResult(call, r, raw).ok }

InitConcurrent ==
    /\ CostAtRest
    /\ InitFetch
    /\ callers = CallIds
    /\ IoAtRest

ConcurrentTick ==
    /\ now < MaxConcurrentTicks * ClockStep
    /\ Tick

NextConcurrent ==
    \/ \E c \in CallIds :
           \E z \in ConcurrentZones(c), g \in CustomerGroups, m \in Municipalities :
               FetchTicketPrices(c, z, g, m)
    \/ \E c \in CallIds, r \in RequiredFetches :
           SettleAfterRejection(c, r, ConcurrentUpstream(calls[c], r))
    \/ \E c \in CallIds, r \in RequiredFetches :
           SettleRejected(c, r, ConcurrentUpstream(calls[c], r))
    \/ \E c \in CallIds, r \in RequiredFetches :
           SettleFulfilled(c, r, ConcurrentUpstream(calls[c], r))
    \/ \E c \in CallIds, r \in RequiredFetches :
           SettleLast(c, r, ConcurrentUpstream(calls[c], r))
    \/ \E c \in CallIds : SettleProbe(c, ConcurrentUpstream(calls[c], "probe"))
    \/ ConcurrentTick

SpecConcurrent == InitConcurrent /\ [][NextConcurrent]_vars

(***************************************************************************)
(* CacheManager as a state machine: each action is one call of a public    *)
(* method on localStorage as it is, under one script of faults; time       *)
(* passes between the calls.  The store also holds keys of other users of  *)
(* localStorage and items that CacheManager did not write.                 *)
(***************************************************************************)
ForeignItem == [text |-> "should-remain"]

InvalidJson == [text |-> "invalid-json"]

CacheValues ==
    { [js |-> "string", v |-> "test-value"],
      [js |-> "array", v |-> <<1, 2, 3>>],
      [js |-> "object", v |-> [nested |-> [deep |-> "value"]]],
      Null,
      Undefined }

Ttls == {100}

ElapseStep == 50

\* An item that set wrote before the first call of the model.
EarlierItem ==
    JSONstringify([value |-> [js |-> "string", v |-> "other-value"],
                   timestamp |-> 0, ttl |-> 100])

InitialStores ==
    { s \in [LocalStorageKeys ->
                {<<>>, <<InvalidJson>>, <<ForeignItem>>, <<EarlierItem>>}] :
          /\ s[<<"other_", <<"key">>>>] = <<ForeignItem>>
          /\ s[<<"theme", <<>>>>] = <<>>
          /\ \A k \in CallerKeys : s[getCacheKey(k)] \in {<<>>, <<InvalidJson>>}
          /\ s[getCacheKey(<<"other-key">>)] # <<ForeignItem>> }

InitCache ==
    /\ CostAtRest
    /\ calls = [c \in CallIds |-> IdleCall]
    /\ callers = {}
    /\ store \in InitialStores
    /\ now = 0
    /\ invocation = NoInvocation
    /\ returned = NoReturn
    /\ inflight = NoInflight

\* The method inv.name of CacheManager on store s at time t under a script.
Perform(inv, s, t, faults) ==
    CASE inv.name = "get" -> get(IO(s, faults), inv.key, t)
      [] inv.name = "set" -> set(IO(s, faults), inv.key, inv.value, inv.ttl, t)
      [] inv.name = "isExpired" -> isExpired(IO(s, faults), inv.key, t)
      [] inv.name = "remove" -> remove(IO(s, faults), inv.key)
      [] inv.name = "clear" -> clear(IO(s, faults))
      [] inv.name = "cleanup" -> cleanup(IO(s, faults), t)
      [] inv.name = "getStats" -> getStats(IO(s, faults), t)

\* One run of inv under the script that fails the calls of at.
Run(inv, s, t, quota, at) ==
    [faults |-> [at |-> at, quota |-> quota],
     completion |-> Perform(inv, s, t, [at |-> at, quota |-> quota])]

\* The runs of inv under at most m faults: a further fault hits a call of
\* localStorage that the method makes after the earlier ones.
RECURSIVE Runs(_, _, _, _, _)
Runs(inv, s, t, quota, m) ==
    IF m = 0 THEN {Run(inv, s, t, quota, {})}
    ELSE Once(Runs(inv, s, t, quota, m - 1), LAMBDA fewer :
             fewer \cup
             UNION { { Run(inv, s, t, quota, r.faults.at \cup {j}) :
                         j \in { i \in 1..r.completion.io.n :
                                     \A a \in r.faults.at : i > a } } :
                       r \in { q \in fewer : Cardinality(q.faults.at) = m - 1 } })

\* The runs of inv in the current state under at most MaxFaults failing
\* calls, for set also with the quota exceeded.
ScriptedRuns(inv) ==
    Runs(inv, store, now, "none", MaxFaults)
    \cup IF inv.name = "set"
         THEN Runs(inv, store, now, "once", MaxFaults)
              \cup Runs(inv, store, now, "persists", MaxFaults)
         ELSE {}

\* What the caller sees of a completion.
Completion(completion) ==
    IF completion.threw
    THEN [kind |-> "threw", error |-> completion.error]
    ELSE [kind |-> "returned", value |-> completion.value]

CallGet ==
    /\ invocation = NoInvocation
    /\ \E k \in CallerKeys :
            \E run \in ScriptedRuns([name |-> "get", key |-> k]) :
                /\ invocation' = [name |-> "get", key |-> k, faults |-> run.faults]
                /\ returned' = Completion(run.completion)
                /\ store' = run.completion.io.s
                /\ UNCHANGED <<now, calls, callers, inflight, costVars>>

\* invocation.writes is the number of calls of setItem that set made.
CallSet ==
    /\ invocation = NoInvocation
    /\ \E k \in CallerKeys, value \in CacheValues, ttl \in Ttls :
            \E run \in ScriptedRuns([name |-> "set", key |-> k, value |-> value,
                                     ttl |-> ttl]) :
                /\ invocation' = [name |-> "set", key |-> k, value |-> value,
                                  ttl |-> ttl, faults |-> run.faults,
                                  writes |-> run.completion.io.writes]
                /\ returned' = Completion(run.completion)
                /\ store' = run.completion.io.s
                /\ UNCHANGED <<now, calls, callers, inflight, costVars>>

CallIsExpired ==
    /\ invocation = NoInvocation
    /\ \E k \in CallerKeys :
            \E run \in ScriptedRuns([name |-> "isExpired", key |-> k]) :
                /\ invocation' = [name |-> "isExpired", key |-> k, faults |-> run.faults]
                /\ returned' = Completion(run.completion)
                /\ store' = run.completion.io.s
                /\ UNCHANGED <<now, calls, callers, inflight, costVars>>

CallRemove ==
    /\ invocation = NoInvocation
    /\ \E k \in CallerKeys :
            \E run \in ScriptedRuns([name |-> "remove", key |-> k]) :
                /\ invocation' = [name |-> "remove", key |-> k, faults |-> run.faults]
                /\ returned' = Completion(run.completion)
                /\ store' = run.completion.io.s
                /\ UNCHANGED <<now, calls, callers, inflight, costVars>>

CallClear ==
    /\ invocation = NoInvocation
    /\ \E run \in ScriptedRuns([name |-> "clear"]) :
            /\ invocation' = [name |-> "clear", faults |-> run.faults]
            /\ returned' = Completion(run.completion)
            /\ store' = run.completion.io.s
            /\ UNCHANGED <<now, calls, callers, inflight, costVars>>

CallCleanup ==
    /\ invocation = NoInvocation
    /\ \E run \in ScriptedRuns([name |-> "cleanup"]) :
            /\ invocation' = [name |-> "cleanup", faults |-> run.faults]
            /\ returned' = Completion(run.completion)
            /\ store' = run.completion.io.s
            /\ UNCHANGED <<now, calls, callers, inflight, costVars>>

CallGetStats ==
    /\ invocation = NoInvocation
    /\ \E run \in ScriptedRuns([name |-> "getStats"]) :
            /\ invocation' = [name |-> "getStats", faults |-> run.faults]
            /\ returned' = Completion(run.completion)
            /\ store' = run.completion.io.s
            /\ UNCHANGED <<now, calls, callers, inflight, costVars>>

\* The caller has taken the completion of its call.
ReturnToCaller ==
    /\ invocation # NoInvocation
    /\ returned # NoReturn
    /\ invocation' = NoInvocation
    /\ returned' = NoReturn
    /\ UNCHANGED <<store, now, calls, callers, inflight, costVars>>

\* Date.now() advances between two calls.
Elapse ==
    /\ invocation = NoInvocation
    /\ now < MaxElapse * ElapseStep
    /\ now' = now + ElapseStep
    /\ UNCHANGED <<store, calls, callers, costVars, ioVars>>

NextCache ==
    \/ CallGet
    \/ CallSet
    \/ CallIsExpired
    \/ CallRemove
    \/ CallClear
    \/ CallCleanup
    \/ CallGetStats
    \/ ReturnToCaller
    \/ Elapse

SpecCache == InitCache /\ [][NextCache]_vars

(***************************************************************************)
(* One request of fetchTicketPrices on its way up: makeRequest settles on  *)
(* the raw outcome of the transport, then the function that awaited it     *)
(* (fetchSingleTicketPrice, fetchDailyTicketPrice,                         *)
(* getSeasonResponseWithRetry or pingSaverSubscriptionEndpoint), then, for *)
(* a required fetch, fetchTicketPrices itself.  returned is what the       *)
(* layer that settled last produced.                                       *)
(***************************************************************************)
OtherStatuses == {304, 404, 503}

Endpoints == RequiredFetches \cup {"probe"}

\* What the transport can answer on an endpoint.
TransportOutcomes(endpoint, zones, customerGroup) ==
    { Response(status, <<>>) : status \in OtherStatuses }
    \cup RawOutcomes(CASE endpoint = "single" -> SingleBodies(zones, customerGroup)
                       [] endpoint = "day" -> DayBodies(zones, customerGroup)
                       [] endpoint = "season" -> SeasonBodies(zones, customerGroup)
                       [] endpoint = "probe" -> {NullBody})

\* The settlement of a layer: fulfilled with a value or rejected with an
\* error.
Settlement(layer, settled) ==
    IF settled.ok
    THEN [kind |-> "fulfilled", layer |-> layer, value |-> settled.value[1]]
    ELSE [kind |-> "rejected", layer |-> layer, error |-> settled.error]

InitRequest ==
    /\ CostAtRest
    /\ InitFetch
    /\ callers = {}
    /\ IoAtRest

\* Lines 591-603: the request is sent.
SendRequest ==
    /\ invocation = NoInvocation
    /\ \E endpoint \in Endpoints, zones \in Zones, customerGroup \in CustomerGroups :
          \E raw \in TransportOutcomes(endpoint, zones, customerGroup) :
              invocation' = [name |-> "makeRequest", endpoint |-> endpoint,
                             zones |-> zones, customerGroup |-> customerGroup,
                             raw |-> raw]
    /\ returned' = NoReturn
    /\ UNCHANGED <<inflight, fetchVars, costVars>>

\* Lines 604-655: makeRequest settles.
MakeRequestSettles ==
    /\ invocation # NoInvocation
    /\ returned = NoReturn
    /\ returned' = Settlement("makeRequest", makeRequest(invocation.raw))
    /\ UNCHANGED <<invocation, inflight, fetchVars, costVars>>

\* The function that awaited makeRequest settles: lines 219-249, 438-469,
\* 185 and 198-201.
FetchFunction(inv) ==
    CASE inv.endpoint = "single" ->
             fetchSingleTicketPrice(inv.raw, inv.zones, inv.customerGroup)
      [] inv.endpoint = "day" ->
             fetchDailyTicketPrice(inv.raw, inv.zones, inv.customerGroup)
      [] inv.endpoint = "season" -> getSeasonResponseWithRetry(inv.raw)
      [] inv.endpoint = "probe" -> Ok(Undefined)

FetchSettles ==
    /\ invocation # NoInvocation
    /\ returned # NoReturn
    /\ returned.layer = "makeRequest"
    /\ returned' = Settlement("fetch", FetchFunction(invocation))
    /\ UNCHANGED <<invocation, inflight, fetchVars, costVars>>

\* Lines 170-172: a required fetch was rejected, Promise.all rejects with
\* its error and the catch of fetchTicketPrices rethrows
\* handleAPIError(error).
CallRejects ==
    /\ invocation # NoInvocation
    /\ returned # NoReturn
    /\ returned.layer = "fetch"
    /\ returned.kind = "rejected"
    /\ invocation.endpoint \in RequiredFetches
    /\ returned' = Settlement("fetchTicketPrices",
                              Fail(handleAPIError(returned.error, <<>>)))
    /\ UNCHANGED <<invocation, inflight, fetchVars, costVars>>

\* The request is over.
RequestDone ==
    /\ invocation # NoInvocation
    /\ returned # NoReturn
    /\ \/ returned.layer = "fetchTicketPrices"
       \/ returned.layer = "fetch" /\ returned.kind = "fulfilled"
    /\ invocation' = NoInvocation
    /\ returned' = NoReturn
    /\ UNCHANGED <<inflight, fetchVars, costVars>>

NextRequest ==
    \/ SendRequest
    \/ MakeRequestSettles
    \/ FetchSettles
    \/ CallRejects
    \/ RequestDone

SpecRequest == InitRequest /\ [][NextRequest]_vars

(***************************************************************************)
(* The requests of one fetchTicketPrices in time.  makeRequest arms a      *)
(* timer of REQUEST_TIMEOUT that aborts its own AbortController, awaits    *)
(* fetch, which resolves when the status and the headers have arrived,     *)
(* clears the timer, and then awaits response.json(), which reads the      *)
(* body.  inflight maps each request to its phase ("connecting" while      *)
(* fetch is pending, "reading" while response.json() is pending,           *)
(* "settled"), the time it was issued at, whether its timer is armed and   *)
(* what it settled with.  A timer that is due fires before time passes.    *)
(***************************************************************************)
WaitStep == 5000

Issued(t) == [phase |-> "connecting", issuedAt |-> t, armed |-> TRUE,
              settled |-> <<>>]

\* The statuses and bodies the upstream sends in this model.
SentStatuses == {200, 503}

SentBodies == {<<>>, <<NullBody>>}

AbortError == PlainError("AbortError", "The operation was aborted.")

FailedToFetch == PlainError("TypeError", "Failed to fetch")

InitTimeout ==
    /\ CostAtRest
    /\ InitFetch
    /\ callers = {}
    /\ IoAtRest

\* Lines 75-79: the three fetches are started together; each makeRequest
\* creates its AbortController and arms its timer (592-596).
IssueRequests ==
    /\ inflight = NoInflight
    /\ inflight' = [e \in RequiredFetches |-> Issued(now)]
    /\ UNCHANGED <<invocation, returned, fetchVars, costVars>>

\* Lines 599-618: fetch resolves with the response; the timer is cleared;
\* a response that is not ok rejects the request at once.
HeadersArrive(e) ==
    /\ inflight # NoInflight
    /\ inflight[e].phase = "connecting"
    /\ \E status \in SentStatuses :
          inflight' =
              [inflight EXCEPT ![e] =
                  IF IsOk(status)
                  THEN [@ EXCEPT !.phase = "reading", !.armed = FALSE]
                  ELSE [@ EXCEPT !.phase = "settled", !.armed = FALSE,
                                 !.settled = <<makeRequest(Response(status, <<>>))>>]]
    /\ UNCHANGED <<invocation, returned, fetchVars, costVars>>

\* Lines 620-621: response.json() settles.
BodyRead(e) ==
    /\ inflight # NoInflight
    /\ inflight[e].phase = "reading"
    /\ \E body \in SentBodies :
          inflight' = [inflight EXCEPT ![e] =
                          [@ EXCEPT !.phase = "settled",
                                    !.settled = <<makeRequest(Response(200, body))>>]]
    /\ UNCHANGED <<invocation, returned, fetchVars, costVars>>

\* fetch rejects because the connection failed; the catch clears the timer
\* (623).
ConnectionFails(e) ==
    /\ inflight # NoInflight
    /\ inflight[e].phase = "connecting"
    /\ inflight' = [inflight EXCEPT ![e] =
                        [@ EXCEPT !.phase = "settled", !.armed = FALSE,
                                  !.settled = <<makeRequest(Thrown(FailedToFetch))>>]]
    /\ UNCHANGED <<invocation, returned, fetchVars, costVars>>

\* Lines 593-596: the timer of the request fires and aborts its controller;
\* the pending fetch rejects with an AbortError.
TimerFires(e) ==
    /\ inflight # NoInflight
    /\ inflight[e].armed
    /\ now - inflight[e].issuedAt >= REQUEST_TIMEOUT
    /\ inflight' = [inflight EXCEPT ![e] =
                        [@ EXCEPT !.phase = "settled", !.armed = FALSE,
                                  !.settled = <<makeRequest(Thrown(AbortError))>>]]
    /\ UNCHANGED <<invocation, returned, fetchVars, costVars>>

\* Time passes while no armed timer is due.
TimePasses ==
    /\ now < MaxWaitSteps * WaitStep
    /\ inflight # NoInflight
         => \A e \in DOMAIN inflight :
                inflight[e].armed
                    => now - inflight[e].issuedAt < REQUEST_TIMEOUT
    /\ now' = now + WaitStep
    /\ UNCHANGED <<store, calls, callers, ioVars, costVars>>

\* The three requests have settled and Promise.all with them.
AllSettled ==
    /\ inflight # NoInflight
    /\ \A e \in DOMAIN inflight : inflight[e].phase = "settled"
    /\ inflight' = NoInflight
    /\ UNCHANGED <<invocation, returned, fetchVars, costVars>>

NextTimeout ==
    \/ IssueRequests
    \/ \E e \in RequiredFetches :
          \/ HeadersArrive(e)
          \/ BodyRead(e)
          \/ ConnectionFails(e)
          \/ TimerFires(e)
    \/ TimePasses
    \/ AllSettled

SpecTimeout == InitTimeout /\ [][NextTimeout]_vars

(***************************************************************************)
(* Vocabulary of the properties of the cost engine.                        *)
(***************************************************************************)
ComputedKeys(r) ==
    {"single", "season", "continuousMonthly"}
        \cup (IF r.series10 # <<>> THEN {"series10"} ELSE {})
        \cup (IF r.series20 # <<>> THEN {"series20"} ELSE {})

OptionCost(r, key) ==
    CASE key = "single" -> r.single.monthlyCost
      [] key = "season" -> r.season.monthlyCost
      [] key = "continuousMonthly" -> r.continuousMonthly.monthlyCost
      [] key = "series10" -> r.series10[1].monthlyCost
      [] key = "series20" -> r.series20[1].monthlyCost

CanonicalRank(key) ==
    CASE key = "single" -> 1
      [] key = "season" -> 2
      [] key = "continuousMonthly" -> 3
      [] key = "series10" -> 4
      [] key = "series20" -> 5

IsMinimalCost(r, c) == \A k \in ComputedKeys(r) : c <= OptionCost(r, k)

\* The least integer k with k * den >= num, stated without MathCeil.
IsLeastAtLeast(k, num, den) ==
    /\ k * den >= num
    /\ (k - 1) * den < num

LeastAtLeast(num, den) == CHOOSE k \in 0..num : IsLeastAtLeast(k, num, den)

\* The journeys of one pack usable within its validity at n/TripDen trips
\* per week: max(1, min(journeys, ceil(tripsPerWeek * validityDays / 7))).
UsablePerPack(n, ticket) ==
    LET c == LeastAtLeast(n * ticket.validityDays, DAYS_PER_WEEK * TripDen)
    IN CHOOSE u \in 1..(ticket.journeys + 1) :
           /\ (c >= 1 /\ c <= ticket.journeys) => u = c
           /\ c > ticket.journeys => u = ticket.journeys
           /\ c < 1 => u = 1

SpecExampleTicket == [price |-> 1250, journeys |-> 10, validityDays |-> 14]

SpecExamplePrices ==
    [single |-> 320, series10 |-> <<SpecExampleTicket>>, series20 |-> <<>>,
     season |-> 10770, continuousMonthly |-> <<5800>>]

\* C1: the key findOptimalOption returns as optimal names a computed option
\* whose monthlyCost is at most the monthlyCost of every computed option.
C1_OptimalIsCheapest ==
    op = "findOptimalOption" =>
        /\ result.optimal \in ComputedKeys(result)
        /\ IsMinimalCost(result, OptionCost(result, result.optimal))

C1_Witness ==
    /\ op = "findOptimalOption"
    /\ result.series10 # <<>>
    /\ result.series20 # <<>>
    /\ result.optimal = "series10"
    /\ OptionCost(result, "series10") < OptionCost(result, "single")

\* C2: among the computed options that share the minimum monthlyCost, optimal
\* is the first in the order single, season, continuousMonthly, series10,
\* series20; when single and series10 tie for the lowest cost, single wins.
C2_TieBreakCanonicalOrder ==
    op = "findOptimalOption" =>
        /\ \A k \in ComputedKeys(result) :
               OptionCost(result, k) = OptionCost(result, result.optimal)
                   => CanonicalRank(result.optimal) <= CanonicalRank(k)
        /\ (/\ result.series10 # <<>>
            /\ OptionCost(result, "single") = OptionCost(result, "series10")
            /\ IsMinimalCost(result, OptionCost(result, "single")))
               => result.optimal = "single"

C2_Witness ==
    /\ op = "findOptimalOption"
    /\ result.series10 # <<>>
    /\ OptionCost(result, "single") > 0
    /\ OptionCost(result, "single") = OptionCost(result, "series10")
    /\ IsMinimalCost(result, OptionCost(result, "single"))
    /\ result.optimal = "single"

\* C3 as stated: when continuousMonthly and season have equal monthlyCost and
\* that cost is the minimum, optimal is continuousMonthly.
C3_Original ==
    (/\ op = "findOptimalOption"
     /\ OptionCost(result, "season") = OptionCost(result, "continuousMonthly")
     /\ IsMinimalCost(result, OptionCost(result, "season")))
        => result.optimal = "continuousMonthly"

\* C3 amended: when continuousMonthly and season have equal monthlyCost and
\* that cost is the minimum, optimal is season, or single when single has
\* that cost too; it is never continuousMonthly.
C3_SeasonWinsTieWithContinuous ==
    (/\ op = "findOptimalOption"
     /\ OptionCost(result, "season") = OptionCost(result, "continuousMonthly")
     /\ IsMinimalCost(result, OptionCost(result, "season")))
        => result.optimal =
               (IF OptionCost(result, "single") = OptionCost(result, "season")
                THEN "single" ELSE "season")

C3_Witness ==
    /\ op = "findOptimalOption"
    /\ OptionCost(result, "season") = OptionCost(result, "continuousMonthly")
    /\ IsMinimalCost(result, OptionCost(result, "season"))
    /\ OptionCost(result, "single") > OptionCost(result, "season")
    /\ result.optimal = "season"

\* C4: for tripsPerWeek > 0, calculateSeriesTicketCost returns ticketsNeeded =
\* ceil(ceil(tripsPerWeek * 4.33) / usable), usable = max(1, min(journeys,
\* ceil(tripsPerWeek * validityDays / 7))), and monthlyCost = ticketsNeeded *
\* price; 5 trips per week on {12.50, 10 journeys, 14 days} is 3 packs at
\* 37.50, and with single 3.20, season 107.70 and continuousMonthly 58.00
\* findOptimalOption returns series10.
C4_SeriesTicketsNeeded ==
    /\ (op = "calculateSeriesTicketCost" /\ tripsPerWeek > 0) =>
           LET m == LeastAtLeast(tripsPerWeek * WEEKS_PER_MONTH_X100,
                                 100 * TripDen)
               u == UsablePerPack(tripsPerWeek, seriesTicket[1])
           IN /\ IsLeastAtLeast(result.ticketsNeeded, m, u)
              /\ result.monthlyCost
                     = result.ticketsNeeded * seriesTicket[1].price
    /\ (/\ op = "calculateSeriesTicketCost"
        /\ tripsPerWeek = 5 * TripDen
        /\ seriesTicket[1] = SpecExampleTicket)
           => result.ticketsNeeded = 3 /\ result.monthlyCost = 3750
    /\ (/\ op = "findOptimalOption"
        /\ tripsPerWeek = 5 * TripDen
        /\ prices = SpecExamplePrices)
           => /\ result.optimal = "series10"
              /\ result.series10[1].monthlyCost = 3750

C4_Witness ==
    /\ op = "findOptimalOption"
    /\ tripsPerWeek = 5 * TripDen
    /\ prices = SpecExamplePrices
    /\ result.series10[1].ticketsNeeded = 3
    /\ result.optimal = "series10"

C7_SingleMonotoneAndZeroSentinel ==
    op = "calculateSingleTicketCost" =>
        /\ \A m \in TripsDomain :
               m <= tripsPerWeek =>
                   LET lower == calculateSingleTicketCost(m, prices.single)
                   IN /\ lower.monthlyCost <= result.monthlyCost
                      /\ lower.annualCost <= result.annualCost
        /\ tripsPerWeek = 0 =>
               /\ result.monthlyCost = 0
               /\ result.annualCost = 0
               /\ result.calculation = "No trips - no cost"

C7_Witness ==
    /\ op = "calculateSingleTicketCost"
    /\ tripsPerWeek = 0
    /\ result.calculation = "No trips - no cost"
    /\ \E f \in SingleFares : f # prices.single
                                /\ calculateSingleTicketCost(0, f) = result

\* C8: calculateSeriesTicketCost returns journeysWasted >= 0, and the result
\* carries a wasteWarning exactly when journeysWasted / (ticketsNeeded *
\* journeys) >= 0.20; a ratio of exactly 0.20 produces the warning.
C8_WasteWarningThreshold ==
    op = "calculateSeriesTicketCost" =>
        LET capacity == result.ticketsNeeded * seriesTicket[1].journeys
        IN /\ result.journeysWasted >= 0
           /\ (result.wasteWarning # <<>>)
                  <=> (capacity > 0 /\ 5 * result.journeysWasted >= capacity)

C8_Witness ==
    /\ op = "calculateSeriesTicketCost"
    /\ result.ticketsNeeded > 0
    /\ 5 * result.journeysWasted
           = result.ticketsNeeded * seriesTicket[1].journeys
    /\ result.wasteWarning # <<>>

(***************************************************************************)
(* Vocabulary of the properties of the price fetch.                        *)
(***************************************************************************)
SnapshotFields ==
    {"single", "series10", "series20", "daily", "monthly", "continuousMonthly",
     "season", "saverSubscription", "timestamp"}

SeriesFields == {"price", "journeys", "validityDays"}

\* A snapshot with every field of TicketPrices resolved.
IsCompleteSnapshot(p) ==
    /\ DOMAIN p = SnapshotFields
    /\ \A f \in {"single", "daily", "monthly", "continuousMonthly",
                 "saverSubscription", "timestamp"} : p[f] \in Int
    /\ DOMAIN p.series10 = SeriesFields /\ p.series10.journeys = 10
    /\ DOMAIN p.series20 = SeriesFields /\ p.series20.journeys = 20
    /\ p.season = [price |-> p.monthly, durationDays |-> 30, type |-> "season"]

\* An error that carries one of the four kinds.
IsClassifiedError(e) ==
    /\ "class" \in DOMAIN e
    /\ e.class = "APIError"
    /\ e.type \in {"network", "cors", "invalid_response", "rate_limit"}

StoreKeyOfCall(call) == <<"hsl_cache_", CacheKeyOfCall(call)>>

\* The entry under a store key is present and not older than its ttl.
HoldsUnexpired(s, k, t) ==
    /\ s[k] # <<>>
    /\ t - s[k][1].item.timestamp <= s[k][1].item.ttl

\* Call c is started in this step.
StartsCall(c) ==
    /\ calls[c].pc # "fetching"
    /\ \A r \in DOMAIN calls[c].req : calls[c].req[r] # "pending"
    /\ calls'[c] # calls[c]

C10_CacheHitNoRequests ==
    [][ \A c \in CallIds :
            (StartsCall(c) /\ HoldsUnexpired(store, StoreKeyOfCall(calls'[c]), now))
                => /\ calls'[c].pc = "returned"
                   /\ calls'[c].outcome
                          = <<store[StoreKeyOfCall(calls'[c])][1].item.value>>
                   /\ \A r \in RequiredFetches \cup {"probe"} :
                          calls'[c].req[r] = "unsent"
                   /\ store' = store
      ]_vars

\* A second call returned the snapshot that the first call wrote one
\* time-to-live earlier, and sent nothing.
C10_Witness ==
    /\ calls["c1"].pc = "returned"
    /\ calls["c1"].fromCache
    /\ \A r \in RequiredFetches \cup {"probe"} : calls["c1"].req[r] = "unsent"
    /\ LET k == StoreKeyOfCall(calls["c1"])
       IN /\ store[k] # <<>>
          /\ calls["c1"].outcome = <<store[k][1].item.value>>
          /\ now - store[k][1].item.timestamp = 3600000

(***************************************************************************)
(* Vocabulary of the properties of CacheManager.                           *)
(***************************************************************************)
\* This step is the call of the method name by a caller.
Calls(name) == invocation = NoInvocation /\ invocation'.name = name

\* A call of the method name has completed and its caller has not resumed.
IsCallOf(name) == invocation.name = name

ReturnOf(value) == [kind |-> "returned", value |-> value]

\* C11: under a store whose calls succeed, get(key) returns null when the
\* key holds no entry, when the stored string cannot be deserialised or when
\* (now - storedAt) > ttl, and otherwise returns the stored value; a get
\* that finds the entry expired removes it from the store.
C11_GetReturnsStoredOrAbsent ==
    [][ (Calls("get") /\ invocation'.faults = NoFaults)
            => LET storeKey == getCacheKey(invocation'.key)
                   entry == store[storeKey]
               IN IF entry = <<>> \/ ~IsJSON(entry[1])
                  THEN returned' = ReturnOf(Null)
                  ELSE IF (now - entry[1].item.timestamp) > entry[1].item.ttl
                  THEN /\ returned' = ReturnOf(Null)
                       /\ store' = [store EXCEPT ![storeKey] = <<>>]
                  ELSE /\ returned'
                            = ReturnOf(IF "value" \in DOMAIN entry[1].item
                                       THEN entry[1].item.value ELSE Undefined)
                       /\ store' = store
      ]_vars

\* A get returned the array that a set stored before, at an age equal to
\* the ttl.
C11_Witness ==
    /\ invocation.name = "get"
    /\ invocation.faults = NoFaults
    /\ returned = ReturnOf([js |-> "array", v |-> <<1, 2, 3>>])
    /\ LET entry == store[getCacheKey(invocation.key)]
       IN entry # <<>> /\ now - entry[1].item.timestamp = entry[1].item.ttl

\* C12: when the store rejects the write of set because its quota is
\* exceeded (and its other calls succeed), set removes every entry whose key
\* has the prefix, calls setItem exactly once more and returns normally
\* whether or not the retry succeeds; the keys without the prefix keep their
\* values.
C12_QuotaWipesPrefixedAndRetriesOnce ==
    [][ (Calls("set") /\ invocation'.faults.quota # "none"
                      /\ invocation'.faults.at = {})
            => LET storeKey == getCacheKey(invocation'.key)
                   cacheItem == [value |-> invocation'.value, timestamp |-> now,
                                 ttl |-> invocation'.ttl]
               IN /\ returned' = ReturnOf(Undefined)
                  /\ invocation'.writes = 2
                  /\ \A k \in DOMAIN store :
                         store'[k] =
                             IF k[1] # CACHE_PREFIX THEN store[k]
                             ELSE IF k = storeKey
                                     /\ invocation'.faults.quota = "once"
                             THEN <<JSONstringify(cacheItem)>>
                             ELSE <<>>
      ]_vars

\* The retry of a set failed as well: the set returned, nothing is left
\* under the prefix and the key of another user of the store holds its item.
C12_Witness ==
    /\ invocation.name = "set"
    /\ invocation.faults = [at |-> {}, quota |-> "persists"]
    /\ invocation.writes = 2
    /\ returned = ReturnOf(Undefined)
    /\ \A k \in PrefixedKeys : store[k] = <<>>
    /\ store[<<"other_", <<"key">>>>] = <<ForeignItem>>

\* C13: no operation of CacheManager propagates an exception to its caller,
\* whichever calls of the store fail: every call returns; a get with a
\* failing store call returns null and an isExpired with one returns true;
\* a set whose setItem fails for another reason than the quota and a remove
\* whose removeItem fails leave the store as it was.
C13_NeverPropagatesStorageErrors ==
    [][ (invocation = NoInvocation /\ invocation' # NoInvocation)
            => /\ returned'.kind = "returned"
               /\ invocation'.faults.at # {}
                    => CASE invocation'.name = "get" -> returned'.value = Null
                         [] invocation'.name = "isExpired" -> returned'.value = TRUE
                         [] invocation'.name = "set" ->
                                invocation'.faults.quota = "none" => store' = store
                         [] invocation'.name = "remove" -> store' = store
                         [] OTHER -> TRUE
      ]_vars

\* getItem failed in a get of a key that holds an unexpired item: the get
\* returned null.
C13_Witness ==
    /\ invocation.name = "get"
    /\ invocation.faults.at = {1}
    /\ returned = ReturnOf(Null)
    /\ LET entry == store[getCacheKey(invocation.key)]
       IN /\ entry # <<>>
          /\ IsJSON(entry[1])
          /\ ~((now - entry[1].item.timestamp) > entry[1].item.ttl)

\* C14: no step of CacheManager (get, set with its wipe on an exceeded
\* quota, isExpired, remove, clear, cleanup, getStats, with or without
\* failing store calls) changes a key that does not start with the prefix:
\* such a key keeps its value, and one that holds nothing is not created.
C14_ForeignKeysUntouched ==
    [][ \A k \in DOMAIN store :
            ~startsWithPrefix(k) => k \in DOMAIN store' /\ store'[k] = store[k]
      ]_vars

\* A clear whose store calls succeeded has returned: nothing is left under
\* the prefix, the item of another user of the store is in place and the
\* key that held nothing still holds nothing.
C14_Witness ==
    /\ invocation.name = "clear"
    /\ invocation.faults = NoFaults
    /\ returned = ReturnOf(Undefined)
    /\ \A k \in PrefixedKeys : store[k] = <<>>
    /\ store[<<"other_", <<"key">>>>] = <<ForeignItem>>
    /\ store[<<"theme", <<>>>>] = <<>>

\* What get(k) returns on store s at time t when the calls of s succeed.
Got(s, k, t) == get(IO(s, NoFaults), k, t).value

C16_IsExpiredPureAndStrict ==
    [][ Calls("isExpired")
            => /\ store' = store
               /\ invocation'.faults = NoFaults
                    => LET entry == store[getCacheKey(invocation'.key)]
                       IN returned' =
                              ReturnOf(IF entry = <<>> \/ ~IsJSON(entry[1])
                                       THEN TRUE
                                       ELSE (now - entry[1].item.timestamp)
                                                > entry[1].item.ttl)
               /\ LET entry == store[getCacheKey(invocation'.key)]
                  IN (/\ invocation'.faults = NoFaults
                      /\ entry # <<>> /\ IsJSON(entry[1])
                      /\ entry[1].item.ttl = 100)
                        => /\ now - entry[1].item.timestamp = 100
                                => returned' = ReturnOf(FALSE)
                           /\ now - entry[1].item.timestamp = 150
                                => returned' = ReturnOf(TRUE)
      ]_vars

\* isExpired answered false for an entry whose age equals its ttl of 100.
C16_Witness ==
    /\ IsCallOf("isExpired")
    /\ invocation.faults = NoFaults
    /\ returned = ReturnOf(FALSE)
    /\ LET entry == store[getCacheKey(invocation.key)]
       IN /\ entry # <<>> /\ IsJSON(entry[1])
          /\ entry[1].item.ttl = 100
          /\ now - entry[1].item.timestamp = 100

(***************************************************************************)
(* Vocabulary of the properties of the classification of errors.           *)
(***************************************************************************)
\* This step is the settlement of the layer.
Settles(layer) ==
    /\ returned' # NoReturn
    /\ returned'.layer = layer
    /\ returned = NoReturn \/ returned.layer # layer

\* The layer has settled and the next one has not.
SettledAt(layer) == returned # NoReturn /\ returned.layer = layer

\* The message carries the status code.
ContainsStatus(message, status) ==
    "status" \in DOMAIN message /\ message.status = status

\* C17: for every request, on every endpoint, a response with status 429 is
\* raised by makeRequest as an error of kind rate_limit, and a response with
\* any other status outside 200..299 as an error of kind network whose
\* message contains the status code.
C17_HttpStatusClassification ==
    [][ (/\ Settles("makeRequest")
         /\ invocation.raw.kind = "response"
         /\ (invocation.raw.status < 200 \/ invocation.raw.status > 299))
            => /\ returned'.kind = "rejected"
               /\ returned'.error.class = "APIError"
               /\ IF invocation.raw.status = 429
                  THEN returned'.error.type = "rate_limit"
                  ELSE /\ returned'.error.type = "network"
                       /\ ContainsStatus(returned'.error.message,
                                         invocation.raw.status)
      ]_vars

\* makeRequest has rejected a response of status 404 on the single
\* endpoint with a network error whose message carries 404.
C17_Witness ==
    /\ SettledAt("makeRequest")
    /\ invocation.endpoint = "single"
    /\ invocation.raw = Response(404, <<>>)
    /\ returned.kind = "rejected"
    /\ returned.error.type = "network"
    /\ ContainsStatus(returned.error.message, 404)

\* The fare class that the function of an endpoint passes to handleAPIError
\* as context.
FareClass(endpoint) ==
    CASE endpoint = "single" -> "single ticket"
      [] endpoint = "day" -> "daily ticket"

\* The number of times " while fetching <context>" occurs in the message.
PhraseCount(message, context) ==
    Cardinality({ i \in 1..Len(message.ctx) : message.ctx[i] = context })

\* Every layer above the one that rejected rejects with an error of the
\* same kind.
KindPreserved ==
    (/\ invocation # NoInvocation
     /\ invocation.endpoint \in RequiredFetches
     /\ returned # NoReturn
     /\ returned.kind = "rejected"
     /\ returned' # NoReturn)
        => /\ returned'.kind = "rejected"
           /\ returned'.error.class = "APIError"
           /\ returned'.error.type = returned.error.type

\* A failure of the single or daily fetch, as its function or
\* fetchTicketPrices raises it.
FareClassFailure ==
    /\ invocation # NoInvocation
    /\ invocation.endpoint \in {"single", "day"}
    /\ returned # NoReturn
    /\ returned.layer \in {"fetch", "fetchTicketPrices"}
    /\ returned.kind = "rejected"

\* C18 as stated: the kind is preserved through every layer, and the
\* message of every failure of the single and of the daily fetch carries
\* the context phrase exactly once.
C18_Original ==
    [][ /\ KindPreserved
        /\ FareClassFailure'
             => PhraseCount(returned'.error.message,
                            FareClass(invocation'.endpoint)) = 1
      ]_vars

\* C18: the kind an error has when makeRequest or a fetch function raises
\* it is the kind of the error fetchTicketPrices raises; the message of
\* every failure of the single and of the daily fetch names the fare class,
\* and carries the context phrase once when the message did not name the
\* fare class already and not at all when it did, never twice.
C18_KindPreservedContextAtMostOnce ==
    [][ /\ KindPreserved
        /\ FareClassFailure'
             => LET message == returned'.error.message
                    context == FareClass(invocation'.endpoint)
                IN /\ Includes(message, context)
                   /\ PhraseCount(message, context)
                          = IF BaseIncludes(message.base, context) THEN 0 ELSE 1
      ]_vars

\* fetchTicketPrices raised the failure of a single fetch whose response
\* holds no tickets: the message names the fare class and carries no
\* context phrase.
C18_Witness ==
    /\ SettledAt("fetchTicketPrices")
    /\ invocation.endpoint = "single"
    /\ invocation.raw.kind = "response"
    /\ invocation.raw.status = 200
    /\ returned.error.type = "invalid_response"
    /\ returned.error.message = Message("No single tickets found in response")

\* The transport failed: fetch threw (no connection, or the abort of the
\* timeout) or the status of the response is outside 200..299.
TransportFailed(raw) ==
    \/ raw.kind = "thrown"
    \/ raw.kind = "response" /\ (raw.status < 200 \/ raw.status > 299)

\* C19: an error of kind network is raised only when the transport failed
\* with a connectivity failure, a timeout or a status outside 200..299 other
\* than 429; when the upstream answered 2xx and the request fails on its
\* payload (a body that cannot be parsed, no tickets array, no matching
\* entry, a price that is not a number) the error has kind invalid_response.
C19_NetworkOnlyForTransportFailures ==
    (returned # NoReturn /\ returned.kind = "rejected")
        => /\ returned.error.type = "network"
                => TransportFailed(invocation.raw)
                   /\ (invocation.raw.kind = "response"
                          => invocation.raw.status # 429)
           /\ ~TransportFailed(invocation.raw)
                => returned.error.type = "invalid_response"

(***************************************************************************)
(* Vocabulary of the properties of the timeout.                            *)
(***************************************************************************)
\* The request e has not settled in requests.
Pending(requests, e) == requests[e].phase # "settled"

\* The request e has settled with the error of the timeout.
TimedOut(requests, e) ==
    /\ requests[e].settled # <<>>
    /\ ~requests[e].settled[1].ok
    /\ requests[e].settled[1].error.message = Message("Request timeout")

\* No request is pending more than REQUEST_TIMEOUT after it was issued.
SettledWithinTimeout(requests, t) ==
    \A e \in DOMAIN requests :
        Pending(requests, e) => t - requests[e].issuedAt <= REQUEST_TIMEOUT

\* The step in which e times out gives it an error of kind network and
\* leaves the other requests as they were.
TimeoutIsOwn(e) ==
    (Pending(inflight, e) /\ TimedOut(inflight', e))
        => /\ inflight'[e].settled[1].error.type = "network"
           /\ \A f \in DOMAIN inflight \ {e} : inflight'[f] = inflight[f]

\* C20: every request is bounded by its own timeout of 10 seconds: a
\* request that has not delivered its parsed response 10 seconds after it
\* was issued does not stay pending, the request whose timer fires settles
\* with the network error 'Request timeout', and that step does not touch
\* the other requests.
C20_BoundedByOwnTimeout ==
    [][ (inflight # NoInflight /\ inflight' # NoInflight)
            => /\ SettledWithinTimeout(inflight', now')
               /\ \A e \in DOMAIN inflight : TimeoutIsOwn(e)
      ]_vars

(***************************************************************************)
(* Vocabulary of the properties of the probe.                              *)
(***************************************************************************)
\* The call has settled after a cache miss.
SettledAfterMiss(call) ==
    call.pc \in {"returned", "rejected"} /\ ~call.fromCache

\* The settlement of the probe of c, whatever it is, changes neither what
\* the call produced nor the cache.
ProbeChangesNothing(c) ==
    (calls[c].req["probe"] = "pending" /\ calls'[c].req["probe"] # "pending")
        => /\ calls'[c].pc = calls[c].pc
           /\ calls'[c].outcome = calls[c].outcome
           /\ store' = store

\* The call settles without the settlement of its probe.
NeverAwaitsProbe(c) ==
    (calls[c].pc = "fetching" /\ calls'[c].pc \in {"returned", "rejected"})
        => calls'[c].req["probe"] \in {"unsent", "pending"}

\* C21: on every cache miss fetchTicketPrices issues the saver-subscription
\* probe besides the three required fetches; the call does not wait for the
\* probe, and the settlement of the probe (fulfilled or rejected) changes
\* neither what the call produces nor the cache.
C21_ProbeOnEveryMiss ==
    [][ \A c \in CallIds :
            /\ SettledAfterMiss(calls'[c]) => calls'[c].req["probe"] # "unsent"
            /\ NeverAwaitsProbe(c)
            /\ ProbeChangesNothing(c)
      ]_vars

(***************************************************************************)
(* Vocabulary of the properties of concurrent calls.                       *)
(***************************************************************************)
\* The entry under store key k is one whole snapshot of one call for that
\* key: every field resolved, the series tiers those of the zones of the
\* key, and the snapshot stamped at the instant the entry was written.
IsWholeEntryOf(entry, zones) ==
    /\ DOMAIN entry = {"value", "timestamp", "ttl"}
    /\ IsCompleteSnapshot(entry.value)
    /\ entry.value.timestamp = entry.timestamp
    /\ entry.ttl = CACHE_TTL
    /\ getSeriesTicketOptions(zones) # <<>>
    /\ entry.value.series10 = getSeriesTicketOptions(zones)[1]
    /\ entry.value.series20 = getSeriesTicketOptions(zones)[2]

ZonesOfStoreKey(k) ==
    CHOOSE z \in Zones :
        \E g \in CustomerGroups, m \in Municipalities :
            k = getCacheKey(PricesKey(z, g, m))

\* C22: under every interleaving of concurrent fetchTicketPrices calls with
\* the settlements of their fetches, every entry of the cache is one whole
\* snapshot for its key, an entry changes only in the step in which exactly
\* one call for that key returns, to exactly the snapshot that call returns,
\* and a call that is answered from the cache returns the whole value of the
\* entry under its key.
C22_ReadersSeeWholeSnapshots ==
    [][ /\ \A k \in StoreKeys :
               /\ store'[k] # <<>>
                      => IsWholeEntryOf(JSONparse(store'[k][1]), ZonesOfStoreKey(k))
               /\ (store'[k] # store[k] /\ store'[k] # <<>>)
                      => /\ Cardinality({ c \in CallIds :
                                            /\ calls[c].pc = "fetching"
                                            /\ calls'[c].pc = "returned"
                                            /\ StoreKeyOfCall(calls'[c]) = k }) = 1
                         /\ \E c \in CallIds :
                                /\ calls'[c].pc = "returned"
                                /\ StoreKeyOfCall(calls'[c]) = k
                                /\ calls'[c].outcome
                                       = <<JSONparse(store'[k][1]).value>>
        /\ \A c \in CallIds :
               (calls'[c] # calls[c] /\ calls'[c].fromCache)
                   => /\ store[StoreKeyOfCall(calls'[c])] # <<>>
                      /\ calls'[c].outcome
                             = <<JSONparse(store[StoreKeyOfCall(calls'[c])][1]).value>>
                      /\ IsWholeEntryOf(JSONparse(store[StoreKeyOfCall(calls'[c])][1]),
                                        calls'[c].zones)
      ]_vars

\* A call is answered from the cache while a concurrent call for the same
\* key, started before the entry was written, is still fetching; the entry
\* replaced the one an earlier call had written.
C22_Witness ==
    /\ calls["c1"].pc = "fetching"
    /\ calls["c2"].pc = "returned"
    /\ calls["c2"].fromCache
    /\ calls["c1"].zones = calls["c2"].zones
    /\ \E q \in RequiredFetches : calls["c1"].req[q] = "fulfilled"
    /\ LET k == StoreKeyOfCall(calls["c2"])
       IN /\ store[k] # <<>>
          /\ calls["c2"].outcome = <<JSONparse(store[k][1]).value>>
          /\ JSONparse(store[k][1]).timestamp = ClockStep

(***************************************************************************)
(* The functions of PriceService that compute a value from what they are   *)
(* given, as a state machine: each action is one call, on inputs drawn     *)
(* from the sets below; invocation holds the inputs and returned the       *)
(* completion of the call.                                                 *)
(***************************************************************************)
\* Prices as the upstream may state them: the fare, nothing and a negative
\* amount are all numbers to `typeof price === "number"`.
UpstreamSinglePrices == {320, -320}

SeasonTicketLists(zones, customerGroup) ==
    LET z == parseInt(zones)
        T14 == Ticket(3, customerGroup, z, "Kausilippu 14", <<5600>>, 14, 0)
        T30(price) == Ticket(3, customerGroup, z, "Kausilippu 30", price, 30, 0)
    IN { <<>>,
         << <<>> >>,
         << <<T14>> >>,
         << <<T14, T30(<<10770>>)>> >>,
         << <<T14, T30(<<0>>)>> >>,
         << <<T14, T30(<<-10770>>)>> >>,
         << <<T14, T30(<<>>)>> >>,
         << <<T30(<<>>), T30(<<10770>>)>> >>,
         << <<Ticket(3, OtherGroup, z, "Kausilippu 30", <<5390>>, 30, 0)>> >> }

SubscriptionLists(zones, customerGroup) ==
    LET z == parseInt(zones)
        Saver(price) == Subscription(customerGroup, z, "Jatkuva saastotilaus", price)
        Continuous(price) == Subscription(customerGroup, z, "Jatkuva tilaus", price)
    IN { <<>>,
         << <<>> >>,
         << <<Saver(<<8980>>)>> >>,
         << <<Continuous(<<10230>>)>> >>,
         << <<Saver(<<8980>>), Continuous(<<10230>>)>> >>,
         << <<Continuous(<<10230>>), Saver(<<8980>>)>> >>,
         << <<Continuous(<<>>), Saver(<<-8980>>)>> >>,
         << <<Subscription(OtherGroup, z, "Jatkuva saastotilaus", <<4490>>),
              Subscription(OtherGroup, z, "Jatkuva tilaus", <<5110>>)>> >> }

SeasonResponses(zones, customerGroup) ==
    { Body(tickets, subscriptions) :
        tickets \in SeasonTicketLists(zones, customerGroup),
        subscriptions \in SubscriptionLists(zones, customerGroup) }

InitService ==
    /\ CostAtRest
    /\ InitFetch
    /\ callers = {}
    /\ IoAtRest

\* fetchTicketPrices from the resolution of Promise.all to its return or its
\* rejection (lines 84-172), without the write to the cache.
BuildSnapshot ==
    /\ invocation = NoInvocation
    /\ \E zones \in Zones, customerGroup \in CustomerGroups,
          singlePrice \in UpstreamSinglePrices :
         \E seasonResponse \in SeasonResponses(zones, customerGroup) :
            LET composed == composePrices(singlePrice, 900, seasonResponse, zones,
                                          customerGroup, now)
            IN /\ invocation' = [name |-> "buildSnapshot", zones |-> zones,
                                 customerGroup |-> customerGroup,
                                 singlePrice |-> singlePrice,
                                 seasonResponse |-> seasonResponse]
               /\ returned' = IF composed.ok
                              THEN [kind |-> "returned", value |-> composed.value[1]]
                              ELSE [kind |-> "threw",
                                    error |-> handleAPIError(composed.error, <<>>)]
    /\ UNCHANGED <<store, now, calls, callers, inflight, costVars>>

(***************************************************************************)
(* getAllTickets: the five listings are requested one after another; each  *)
(* step below is one `await` of the loop (lines 834-846) or of the two     *)
(* blocks that follow it (849-871) together with its try/catch.            *)
(***************************************************************************)
TicketTypes == <<"single", "day", "monthly", "season", "season/saver-subscription">>

ListingTickets(ticketType) ==
    IF ticketType = "single"
    THEN <<[id |-> "1", listing |-> ticketType], [id |-> "2", listing |-> ticketType]>>
    ELSE <<[id |-> "1", listing |-> ticketType]>>

ListingOutcomes(ticketType) ==
    { Response(200, <<Body(<<ListingTickets(ticketType)>>, <<>>)>>),
      Response(200, <<Body(<<>>, <<>>)>>),
      Response(200, <<NullBody>>),
      Response(500, <<>>),
      Thrown(PlainError("TypeError", "Failed to fetch")) }

\* fetchTicketsByType, applied to the raw outcome of its request.  The
\* context `${ticketType} tickets` is named by its ticket type.
fetchTicketsByType(raw, ticketType) ==
    LET context == <<ticketType>>
        response == makeRequest(raw)
    IN IF ~response.ok
       THEN Fail(handleAPIError(response.error, context))
       ELSE LET body == response.value[1]
            IN IF ~body.isObject
               THEN Fail(handleAPIError(NullDereference, context))
               ELSE IF body.tickets = <<>>
               THEN Fail(handleAPIError(
                        APIError(Message("Invalid tickets response format"),
                                 "invalid_response", <<>>), context))
               ELSE Ok(body)

\* The same steps on a URL with additional query parameters.
fetchTicketsByTypeWithParams(raw, ticketType) == fetchTicketsByType(raw, ticketType)

FetchListing(raw, ticketType) ==
    IF ticketType \in {"single", "day", "monthly"}
    THEN fetchTicketsByType(raw, ticketType)
    ELSE fetchTicketsByTypeWithParams(raw, ticketType)

\* The same step, were a failed listing to discard what was collected.
pushTicketsOrDiscard(allTickets, fetched) ==
    IF fetched.ok THEN allTickets \o fetched.value[1].tickets[1] ELSE <<>>

\* allTickets.push(...response.tickets) in the try, nothing in the catch.
pushTickets(allTickets, fetched) ==
    IF fetched.ok THEN allTickets \o fetched.value[1].tickets[1] ELSE allTickets

CallGetAllTickets ==
    /\ invocation = NoInvocation
    /\ invocation' = [name |-> "getAllTickets", requested |-> <<>>,
                      answers |-> <<>>, allTickets |-> <<>>]
    /\ returned' = NoReturn
    /\ UNCHANGED <<store, now, calls, callers, inflight, costVars>>

ListingSettles ==
    /\ invocation.name = "getAllTickets"
    /\ returned = NoReturn
    /\ Len(invocation.requested) < Len(TicketTypes)
    /\ LET ticketType == TicketTypes[Len(invocation.requested) + 1]
       IN \E raw \in ListingOutcomes(ticketType) :
              invocation' =
                  [invocation EXCEPT
                      !.requested = Append(@, ticketType),
                      !.answers = Append(@, raw),
                      !.allTickets = pushTickets(@, FetchListing(raw, ticketType))]
    /\ UNCHANGED <<returned, store, now, calls, callers, inflight, costVars>>

GetAllTicketsReturns ==
    /\ invocation.name = "getAllTickets"
    /\ returned = NoReturn
    /\ Len(invocation.requested) = Len(TicketTypes)
    /\ returned' = [kind |-> "returned", value |-> invocation.allTickets]
    /\ UNCHANGED <<invocation, store, now, calls, callers, inflight, costVars>>

(***************************************************************************)
(* getTicketRecommendation(tripsPerWeek, singleTicketPrice,                *)
(* monthlyTicketPrice); the reasoning is named by its fixed words.         *)
(***************************************************************************)
RecommendationSingleFares == {295, 320}

RecommendationMonthlyFares == {100, 640, 6470, 7040, 10770}

\* The same test, were equal costs to favour the monthly ticket.
SingleIsStrictlyCheaper(singleMonthlyCost, monthlyCost) ==
    singleMonthlyCost < monthlyCost

\* singleTicketCost.monthlyCost <= monthlyCost (line 1353).
SingleIsCheaper(singleMonthlyCost, monthlyCost) ==
    singleMonthlyCost <= monthlyCost

getTicketRecommendation(n, singleTicketPrice, monthlyTicketPrice) ==
    LET singleTicketCost == calculateSingleTicketCost(n, singleTicketPrice)
    IN IF "threw" \in DOMAIN singleTicketCost
       THEN singleTicketCost
       ELSE LET monthlyCost == monthlyTicketPrice
                breakEvenTrips == MathCeil(monthlyCost, singleTicketPrice)
                chosen ==
                    IF n = 0
                    THEN <<"single", "No trips planned">>
                    ELSE IF SingleIsCheaper(singleTicketCost.monthlyCost, monthlyCost)
                    THEN <<"single", "Single tickets are cheaper">>
                    ELSE <<"monthly", "Monthly ticket saves">>
            IN [recommendation |-> chosen[1],
                reasoning |-> chosen[2],
                singleCost |-> singleTicketCost.monthlyCost,
                monthlyCost |-> monthlyCost,
                savings |-> MathMax(0, singleTicketCost.monthlyCost - monthlyCost),
                breakEvenTrips |-> breakEvenTrips]

CallGetTicketRecommendation ==
    /\ invocation = NoInvocation
    /\ \E n \in TripsDomain, singleTicketPrice \in RecommendationSingleFares,
          monthlyTicketPrice \in RecommendationMonthlyFares :
           /\ invocation' = [name |-> "getTicketRecommendation", n |-> n,
                             singleTicketPrice |-> singleTicketPrice,
                             monthlyTicketPrice |-> monthlyTicketPrice]
           /\ returned' = [kind |-> "returned",
                           value |-> getTicketRecommendation(n, singleTicketPrice,
                                                             monthlyTicketPrice)]
    /\ UNCHANGED <<store, now, calls, callers, inflight, costVars>>

NextService ==
    \/ BuildSnapshot
    \/ CallGetTicketRecommendation
    \/ CallGetAllTickets
    \/ ListingSettles
    \/ GetAllTicketsReturns
    \/ ReturnToCaller

SpecService == InitService /\ [][NextService]_vars

(***************************************************************************)
(* Vocabulary of the properties of the snapshot.                           *)
(***************************************************************************)
TicketsOf(response) ==
    IF response.tickets = <<>> THEN <<>> ELSE response.tickets[1]

SubscriptionsOf(response) ==
    IF response.subscriptions = <<>> THEN <<>> ELSE response.subscriptions[1]

\* The 30-day entries of the season listing for the customer group and zone
\* of the call, the continuous (non-saver) and the saver subscription
\* records for them, in the order of the listing; the first of each is the
\* matching one.
ThirtyDayEntries(inv) ==
    SelectSeq(TicketsOf(inv.seasonResponse),
              LAMBDA ticket : /\ ticket.customerGroup = inv.customerGroup
                              /\ ticket.zones = parseInt(inv.zones)
                              /\ ticket.durationDays = 30)

ContinuousRecords(inv) ==
    SelectSeq(SubscriptionsOf(inv.seasonResponse),
              LAMBDA s : /\ s.customerGroup = inv.customerGroup
                         /\ s.zones = parseInt(inv.zones)
                         /\ s.title = "Jatkuva tilaus")

SaverRecords(inv) ==
    SelectSeq(SubscriptionsOf(inv.seasonResponse),
              LAMBDA s : /\ s.customerGroup = inv.customerGroup
                         /\ s.zones = parseInt(inv.zones)
                         /\ s.title = "Jatkuva saastotilaus")

\* The price of the first record of a list, <<>> when there is no record or
\* it states no price.
PriceOfFirst(records) ==
    IF records = <<>> THEN <<>> ELSE records[1].price

\* round(monthly x 0.95, 2) on cents.
RoundedDiscount(monthly) == (monthly * 95 + 50) \div 100

Snapshot == returned.value

C24_ContinuousPrefersSaver ==
    (IsCallOf("buildSnapshot") /\ returned.kind = "returned")
        => LET continuous == PriceOfFirst(ContinuousRecords(invocation))
               saver == PriceOfFirst(SaverRecords(invocation))
           IN Snapshot.continuousMonthly
                  = IF saver # <<>> THEN saver[1]
                    ELSE IF continuous # <<>> THEN continuous[1]
                    ELSE RoundedDiscount(Snapshot.monthly)

\* C25: every money field of every snapshot that fetchTicketPrices builds
\* is non-negative.
C25_MoneyNonNegative ==
    (IsCallOf("buildSnapshot") /\ returned.kind = "returned")
        => /\ \A f \in {"single", "daily", "monthly", "continuousMonthly",
                        "saverSubscription"} : Snapshot[f] >= 0
           /\ Snapshot.season.price >= 0
           /\ Snapshot.series10.price >= 0
           /\ Snapshot.series20.price >= 0

(***************************************************************************)
(* Vocabulary of the properties of getAllTickets.                          *)
(***************************************************************************)
\* The request was answered with a 2xx status and an object that holds a
\* tickets list.
ListingSucceeded(raw) ==
    /\ raw.kind = "response"
    /\ raw.status \in 200..299
    /\ raw.body # <<>>
    /\ raw.body[1].isObject
    /\ raw.body[1].tickets # <<>>

\* The tickets of the listings among the first n answers that succeeded, in
\* the order of the requests.
RECURSIVE TicketsOfSucceeded(_, _)
TicketsOfSucceeded(answers, n) ==
    IF n = 0
    THEN <<>>
    ELSE TicketsOfSucceeded(answers, n - 1)
             \o (IF ListingSucceeded(answers[n])
                 THEN answers[n].body[1].tickets[1]
                 ELSE <<>>)

\* C26: getAllTickets never rejects; it requests the listings single, day,
\* monthly, season and season/saver-subscription one after another in that
\* order, each exactly once whatever became of the earlier ones, and returns
\* the concatenation, in that order, of the tickets of exactly the listings
\* that succeeded.
C26_GetAllTicketsBestEffort ==
    IsCallOf("getAllTickets")
        => /\ returned.kind \in {"none", "returned"}
           /\ invocation.requested
                  = SubSeq(<<"single", "day", "monthly", "season",
                             "season/saver-subscription">>,
                           1, Len(invocation.requested))
           /\ Len(invocation.answers) = Len(invocation.requested)
           /\ returned.kind = "returned"
                  => /\ Len(invocation.requested) = 5
                     /\ returned.value = TicketsOfSucceeded(invocation.answers, 5)

\* getAllTickets returned the tickets of the day, monthly and season
\* listings after the single and the saver-subscription listings failed.
C26_Witness ==
    /\ IsCallOf("getAllTickets")
    /\ returned.kind = "returned"
    /\ ~ListingSucceeded(invocation.answers[1])
    /\ ListingSucceeded(invocation.answers[2])
    /\ ListingSucceeded(invocation.answers[3])
    /\ ListingSucceeded(invocation.answers[4])
    /\ ~ListingSucceeded(invocation.answers[5])
    /\ Len(returned.value) = 3
    /\ returned.value[1].listing = "day"
    /\ returned.value[3].listing = "season"

\* C27: for singleFare > 0 and flatFare > 0 getTicketRecommendation returns
\* breakEvenTrips = ceil(flatFare / singleFare); for tripsPerWeek = 0 it
\* returns 'single' with the reasoning 'No trips planned', singleCost 0 and
\* savings 0; for tripsPerWeek > 0 it recommends 'single' exactly when the
\* single monthly cost is at most flatFare, and savings is
\* max(0, single monthly cost - flatFare).
C27_Recommendation ==
    IsCallOf("getTicketRecommendation")
        => LET n == invocation.n
               singleFare == invocation.singleTicketPrice
               flatFare == invocation.monthlyTicketPrice
               singleMonthly == calculateSingleTicketCost(n, singleFare).monthlyCost
               r == returned.value
           IN /\ r.breakEvenTrips * singleFare >= flatFare
              /\ (r.breakEvenTrips - 1) * singleFare < flatFare
              /\ n = 0 => /\ r.recommendation = "single"
                          /\ r.reasoning = "No trips planned"
                          /\ r.singleCost = 0
                          /\ r.savings = 0
              /\ n > 0 => /\ r.recommendation = "single" <=> singleMonthly <= flatFare
                          /\ r.recommendation \in {"single", "monthly"}
                          /\ r.reasoning # "No trips planned"
                          /\ r.singleCost = singleMonthly
                          /\ r.savings = IF singleMonthly > flatFare
                                         THEN singleMonthly - flatFare
                                         ELSE 0

\* Five trips a week at 3.20 cost 70.40 a month, exactly the flat fare:
\* single is recommended, nothing is saved, break-even at 22 trips.
C27_Witness ==
    /\ IsCallOf("getTicketRecommendation")
    /\ invocation.n = 5 * TripDen
    /\ invocation.singleTicketPrice = 320
    /\ invocation.monthlyTicketPrice = 7040
    /\ returned.value.recommendation = "single"
    /\ returned.value.singleCost = 7040
    /\ returned.value.savings = 0
    /\ returned.value.breakEvenTrips = 22

\* C28: after set(k, v, ttl) has returned, however the store behaved during
\* the call, an immediate get(k) returns v or nothing, never a value that an
\* earlier set stored under k.
C28_SetNeverLeavesEarlierValue ==
    IsCallOf("set")
        => Got(store, invocation.key, now) \in {invocation.value, Null}

\* C29: the two freshness checks agree: in the step in which
\* fetchTicketPrices returns a snapshot from the cache (CacheManager.get
\* judged the entry unexpired), isCacheValid(snapshot.timestamp) is true at
\* that instant, also when exactly 3,600,000 ms have passed since the write.
C29_FreshnessChecksAgree ==
    [][ \A c \in CallIds :
            (StartsCall(c) /\ calls'[c].pc = "returned" /\ calls'[c].fromCache)
                => isCacheValid(calls'[c].outcome[1].timestamp, now)
      ]_vars

\* C30: for every valid tier the monthlyCost of calculateSeriesTicketCost is
\* non-decreasing in tripsPerWeek over the integers from 0: no whole number
\* of weekly trips costs less than a smaller one.
C30_SeriesCostMonotone ==
    (op = "calculateSeriesTicketCost" /\ tripsPerWeek % TripDen = 0)
        => \A fewer \in 0..tripsPerWeek :
               fewer % TripDen = 0
                   => calculateSeriesTicketCost(fewer, seriesTicket[1]).monthlyCost
                          <= result.monthlyCost

====
